---- MODULE Spec2Model ----
\* Verification model of the event-driven graph projection of the TMS server:
\*   server/app/services/graph_sync_service.py   (GraphSyncService)
\*   server/app/repositories/neo4j_repository.py (Neo4jRepository)
\*   server/app/kafka/consumer.py                (TMSEventConsumer)
EXTENDS Integers, Sequences, FiniteSets, TLC

VARIABLES
    graph,      \* the graph store: [nodes |-> set of [label, id, nid, props],
                \*                   rels  |-> set of [type, from, to, rid, props]]
    hist,       \* the envelopes GraphSyncService.handle_event processed last (newest last)
    steps,      \* number of envelopes processed so far
    result,     \* how the last call of GraphSyncService.handle_event ended (None: no call)
    _running,   \* TMSEventConsumer._running
    consumer,   \* TMSEventConsumer.consumer: None or the AIOKafkaConsumer
    _handlers,  \* TMSEventConsumer._handlers: event type -> list of handlers
    starting,   \* number of start() calls suspended in await self.consumer.start()
    opened,     \* number of AIOKafkaConsumer instances started (or starting) and not stopped
    startError, \* whether the start() call that returned last raised to its caller
    pc,         \* where consume_events stands
    absorbed,   \* the per-message failure the loop absorbed most recently (None: none yet)
    event,      \* what _parse_event returned for the message pulled last
    handlers,   \* _handle_event's local list of handlers for that envelope
    idx,        \* position of _handle_event's for loop in handlers
    invoked,    \* the calls awaited while dispatching that envelope, in order
    pulled,     \* number of messages the loop has pulled
    fleet,      \* the Driver-DRIVES->Vehicle-OWNED_BY->Carrier paths of the graph, in scan order
    request,    \* the load and the constraints of the optimization asked for last
    candidates, \* what _find_optimization_candidates returned for it
    scored,     \* what _score_route_candidates returned for those candidates
    response,   \* what optimize_load_assignment returned for it
    stage,      \* how far the optimization asked for last has been taken
    routes,     \* the rows of the routes table of the relational store, oldest first
    bus,        \* the events the bus has accepted from TMSEventProducer, oldest first
    gmaps,      \* RouteOptimizationService.gmaps: None or the googlemaps client
    _producer,  \* kafka.producer._producer: None, or the global producer, started or not
    _db_manager,\* database.connections._db_manager: None, or the manager, initialized or not
    answer,     \* how the last call of RouteOptimizationService.optimize_route ended
    calls,      \* the optimization calls made so far, in order
    group       \* the consumer group on one partition: log, position, committed offset

graphVars == <<graph, hist, steps, result>>

startVars == <<starting, opened, startError>>

dispatchVars == <<_running, consumer, _handlers, starting, opened, startError, pc,
                  absorbed, event, handlers, idx, invoked, pulled>>

optVars == <<fleet, request, candidates, scored, response, stage>>

vars == <<graph, hist, steps, result, _running, consumer, _handlers, starting,
          opened, startError, pc, absorbed, event, handlers, idx, invoked, pulled,
          fleet, request, candidates, scored, response, stage,
          routes, bus, gmaps, _producer, _db_manager, answer, calls, group>>

routeVars == <<routes, bus, gmaps, _producer, _db_manager, answer, calls>>

\* ------------------------------------------------------------------ bounds

MaxEvents == 3      \* envelopes processed in one run
MaxMessages == 3    \* messages the consumption loop pulls in one run
MaxHandlers == 2    \* handlers registered for one event type
MaxStarts == 2      \* start() calls in flight, and bus consumers open, at one time

\* ------------------------------------------------------------------ values

None == "None"                  \* Python None / JSON null / absent Cypher property
Absent == "Absent"              \* a key the payload dictionary does not hold
WallClock == "datetime()"       \* a value produced by the store's clock (Cypher datetime())

\* BaseEvent.timestamp values
Timestamps == {"T1", "T2"}
LoadIds == {"L1"}
DriverIds == {"D1"}
VehicleIds == {"V1"}
CarrierIds == {"K1"}
CustomerIds == {"C1"}
RouteIds == {"R1"}

\* datetime.isoformat(): an injective rendering of the timestamp as a string
isoformat(t) == "iso:" \o t

\* Python str(): payload identifiers are JSON strings and stay as they are; None
\* becomes the four-letter string, which is no longer null
str(x) == IF x = None THEN "'None'" ELSE x

\* Python truthiness of a payload value (None and "" are falsy)
Truthy(x) == x # None /\ x # ""

\* dict.get(key) and dict.get(key, default)
get(d, k) == IF d[k] = Absent THEN None ELSE d[k]

get_default(d, k, default) == IF d[k] = Absent THEN default ELSE d[k]

\* a or b
Or(a, b) == IF Truthy(a) THEN a ELSE b

\* ------------------------------------------------------------------ graph store

\* A node without properties: every property reads as null until it is SET.
NullProps ==
    [ customer_id |-> None, pickup_location |-> None, delivery_location |-> None,
      weight |-> None, status |-> None, created_at |-> None, updated_at |-> None,
      delivered_at |-> None, cancelled_at |-> None,
      latitude |-> None, longitude |-> None, location_updated_at |-> None,
      load_id |-> None, distance |-> None, duration |-> None,
      optimized_at |-> None, completed_at |-> None ]

NullRelProps == [assigned_at |-> None]

EmptyGraph == [nodes |-> {}, rels |-> {}]

\* MATCH (n:label {id: $id})
MatchNodes(g, label, id) == {n \in g.nodes : n.label = label /\ n.id = id}

\* MERGE (n:label {id: $id}): create the node only when no node matches
MergeNode(g, label, id) ==
    IF MatchNodes(g, label, id) = {}
    THEN [g EXCEPT !.nodes = @ \cup
            {[label |-> label, id |-> id, nid |-> 1, props |-> NullProps]}]
    ELSE g

\* a property a SET clause leaves as it is
Keep == "Keep"

\* SET n.k = upd.k for the properties upd names
SetProps(props, upd) ==
    [k \in DOMAIN props |-> IF k \in DOMAIN upd /\ upd[k] # Keep THEN upd[k] ELSE props[k]]

\* SET on every node bound by MATCH/MERGE (n:label {id: $id})
SetNodes(g, label, id, upd) ==
    [g EXCEPT !.nodes =
        {IF n.label = label /\ n.id = id THEN [n EXCEPT !.props = SetProps(@, upd)] ELSE n
            : n \in @}]

\* relationships of one type between two matched patterns
MatchRels(g, type, from, to) ==
    {r \in g.rels : r.type = type /\ r.from = from /\ r.to = to}

\* MATCH (a:la {id: $a}), (b:lb {id: $b}) MERGE (a)-[r:type]->(b) SET r.k = upd.k:
\* nothing happens unless both nodes exist; the relationship is created only when
\* none of that type joins the two nodes
MergeRel(g, type, la, a, lb, b, upd) ==
    IF MatchNodes(g, la, a) = {} \/ MatchNodes(g, lb, b) = {}
    THEN g
    ELSE LET from == <<la, a>>
             to == <<lb, b>>
             g1 == IF MatchRels(g, type, from, to) = {}
                   THEN [g EXCEPT !.rels = @ \cup
                           {[type |-> type, from |-> from, to |-> to, rid |-> 1,
                             props |-> NullRelProps]}]
                   ELSE g
         IN [g1 EXCEPT !.rels =
                {IF r.type = type /\ r.from = from /\ r.to = to
                 THEN [r EXCEPT !.props = SetProps(@, upd)] ELSE r : r \in @}]

\* a relationship MERGE without SET
NoSet == [assigned_at |-> Keep]

\* CREATE (n:label {id: $id}): a new node whether or not one exists
CreateNode(g, label, id) ==
    [g EXCEPT !.nodes = @ \cup
        {[label |-> label, id |-> id, nid |-> Cardinality(MatchNodes(g, label, id)) + 1,
          props |-> NullProps]}]

\* MATCH (a), (b) CREATE (a)-[r:type]->(b) SET r.k = upd.k: a new relationship each time
CreateRel(g, type, la, a, lb, b, upd) ==
    IF MatchNodes(g, la, a) = {} \/ MatchNodes(g, lb, b) = {}
    THEN g
    ELSE [g EXCEPT !.rels = @ \cup
            {[type |-> type, from |-> <<la, a>>, to |-> <<lb, b>>,
              rid |-> Cardinality(MatchRels(g, type, <<la, a>>, <<lb, b>>)) + 1,
              props |-> SetProps(NullRelProps, upd)]}]

\* ------------------------------------------------------------------ Neo4jRepository

\* x.isoformat() if x else None
IsoOrNone(x) == IF x # None THEN isoformat(x) ELSE None

\* a property SET to x.isoformat() only when x is given
IsoOrKeep(x) == IF x # None THEN isoformat(x) ELSE Keep

\* x.isoformat() if x else the clock
IsoOrNow(x) == IF x # None THEN isoformat(x) ELSE WallClock

\* create_load_node with the properties written only when the node is created
\* (MERGE ... ON CREATE SET ...)
create_load_node_on_create(g, load_id, customer_id, pickup_location, delivery_location, weight, status, created_at) ==
    IF MatchNodes(g, "Load", load_id) # {} THEN g
    ELSE SetNodes(MergeNode(g, "Load", load_id), "Load", load_id,
            [ customer_id |-> customer_id, pickup_location |-> pickup_location,
              delivery_location |-> delivery_location, weight |-> weight,
              status |-> status, created_at |-> IsoOrNone(created_at),
              updated_at |-> WallClock ])

create_load_node(g, load_id, customer_id, pickup_location, delivery_location, weight, status, created_at) ==
    SetNodes(MergeNode(g, "Load", load_id), "Load", load_id,
        [ customer_id |-> customer_id, pickup_location |-> pickup_location,
          delivery_location |-> delivery_location, weight |-> weight,
          status |-> status, created_at |-> IsoOrNone(created_at),
          updated_at |-> WallClock ])

update_load_status(g, load_id, status, delivered_at, cancelled_at) ==
    SetNodes(g, "Load", load_id,
        [ status |-> status, updated_at |-> WallClock,
          delivered_at |-> IsoOrKeep(delivered_at),
          cancelled_at |-> IsoOrKeep(cancelled_at) ])

\* MATCH (l:Load {id: $load_id})-[r:ASSIGNED_TO|TRANSPORTS]->() DELETE r
\* The pattern binds relationships that START at the Load node.
remove_load_assignments(g, load_id) ==
    [g EXCEPT !.rels =
        {r \in @ : ~(r.type \in {"ASSIGNED_TO", "TRANSPORTS"}
                     /\ r.from = <<"Load", load_id>>)}]

\* MERGE ... ON CREATE SET created_at = datetime() SET updated_at = datetime()
CreateIfNotExists(g, label, id) ==
    LET created == MatchNodes(g, label, id) = {}
    IN SetNodes(MergeNode(g, label, id), label, id,
        [ created_at |-> IF created THEN WallClock ELSE Keep, updated_at |-> WallClock ])

\* create_driver_node_if_not_exists written with CREATE instead of MERGE
create_driver_node_always(g, driver_id) ==
    SetNodes(CreateNode(g, "Driver", driver_id), "Driver", driver_id,
        [ created_at |-> WallClock, updated_at |-> WallClock ])

create_driver_node_if_not_exists(g, driver_id) == CreateIfNotExists(g, "Driver", driver_id)

create_vehicle_node_if_not_exists(g, vehicle_id) == CreateIfNotExists(g, "Vehicle", vehicle_id)

update_driver_status(g, driver_id, status, updated_at) ==
    SetNodes(g, "Driver", driver_id,
        [ status |-> status, updated_at |-> IsoOrNow(updated_at) ])

update_driver_location(g, driver_id, latitude, longitude, updated_at) ==
    SetNodes(g, "Driver", driver_id,
        [ latitude |-> latitude, longitude |-> longitude,
          location_updated_at |-> IsoOrNow(updated_at) ])

update_vehicle_status(g, vehicle_id, status, updated_at) ==
    SetNodes(g, "Vehicle", vehicle_id,
        [ status |-> status, updated_at |-> IsoOrNow(updated_at) ])

update_vehicle_location(g, vehicle_id, latitude, longitude, updated_at) ==
    SetNodes(g, "Vehicle", vehicle_id,
        [ latitude |-> latitude, longitude |-> longitude,
          location_updated_at |-> IsoOrNow(updated_at) ])

create_route_node(g, route_id, load_id, distance, duration, optimized_at) ==
    SetNodes(MergeNode(g, "Route", route_id), "Route", route_id,
        [ load_id |-> load_id, distance |-> distance, duration |-> duration,
          optimized_at |-> IsoOrNone(optimized_at), status |-> "ACTIVE",
          updated_at |-> WallClock ])

update_route_status(g, route_id, status, completed_at) ==
    SetNodes(g, "Route", route_id,
        [ status |-> status, updated_at |-> WallClock,
          completed_at |-> IsoOrKeep(completed_at) ])

\* SET r.assigned_at = $assigned_at
\* (assigned_at.isoformat() if assigned_at else datetime.utcnow().isoformat())
SetAssignedAt(assigned_at) == [assigned_at |-> IsoOrNow(assigned_at)]

create_customer_load_relationship(g, customer_id, load_id) ==
    MergeRel(g, "ORDERS", "Customer", customer_id, "Load", load_id, NoSet)

\* create_driver_load_assignment written with CREATE instead of MERGE
create_driver_load_assignment_create(g, driver_id, load_id, assigned_at) ==
    CreateRel(g, "ASSIGNED_TO", "Driver", driver_id, "Load", load_id,
              SetAssignedAt(assigned_at))

create_driver_load_assignment(g, driver_id, load_id, assigned_at) ==
    MergeRel(g, "ASSIGNED_TO", "Driver", driver_id, "Load", load_id,
             SetAssignedAt(assigned_at))

\* create_vehicle_load_assignment written with CREATE instead of MERGE
create_vehicle_load_assignment_create(g, vehicle_id, load_id, assigned_at) ==
    CreateRel(g, "TRANSPORTS", "Vehicle", vehicle_id, "Load", load_id,
              SetAssignedAt(assigned_at))

create_vehicle_load_assignment(g, vehicle_id, load_id, assigned_at) ==
    MergeRel(g, "TRANSPORTS", "Vehicle", vehicle_id, "Load", load_id,
             SetAssignedAt(assigned_at))

create_driver_vehicle_relationship(g, driver_id, vehicle_id, assigned_at) ==
    MergeRel(g, "DRIVES", "Driver", driver_id, "Vehicle", vehicle_id,
             SetAssignedAt(assigned_at))

create_vehicle_carrier_relationship(g, vehicle_id, carrier_id) ==
    MergeRel(g, "OWNED_BY", "Vehicle", vehicle_id, "Carrier", carrier_id, NoSet)

create_route_load_relationship(g, route_id, load_id) ==
    MergeRel(g, "OPTIMIZES", "Route", route_id, "Load", load_id, NoSet)

create_route_driver_relationship(g, route_id, driver_id) ==
    MergeRel(g, "EXECUTED_BY", "Route", route_id, "Driver", driver_id, NoSet)

create_route_vehicle_relationship(g, route_id, vehicle_id) ==
    MergeRel(g, "USES_VEHICLE", "Route", route_id, "Vehicle", vehicle_id, NoSet)

\* ------------------------------------------------------------------ envelopes

\* BaseEvent: the fields the synchronizer reads (event_id, source, correlation_id,
\* version and metadata are carried but never read by it)
Event(type, ts, data) == [event_type |-> type, timestamp |-> ts, data |-> data]

\* attribute access on the pydantic model: only declared fields exist
HasAttr(e, a) == a \in DOMAIN e

\* Payloads: every event type comes with its complete payload, with payloads that
\* lack one optional reference, and with one payload that lacks the entity's own id.

\* LOAD_CREATED carries the load's id under "id" or under "load_id"
LoadCreatedData ==
    UNION { { [id |-> l, load_id |-> Absent, customer_id |-> "C1",
               pickup_location |-> "A", delivery_location |-> "B",
               weight |-> "10t", status |-> Absent],
              [id |-> Absent, load_id |-> l, customer_id |-> Absent,
               pickup_location |-> "B", delivery_location |-> "A",
               weight |-> "20t", status |-> "BOOKED"] } : l \in LoadIds }
    \cup { [id |-> Absent, load_id |-> Absent, customer_id |-> "C1",
            pickup_location |-> "A", delivery_location |-> "B",
            weight |-> "10t", status |-> Absent] }

\* one optional key of a payload dropped, or none
Dropped(d, keys) == {d} \cup {[d EXCEPT ![k] = Absent] : k \in keys}

LoadAssignedData ==
    UNION { Dropped([load_id |-> l, driver_id |-> d, vehicle_id |-> v],
                    {"load_id", "driver_id", "vehicle_id"}) :
            l \in LoadIds, d \in DriverIds, v \in VehicleIds }

LoadStatusData == [load_id : LoadIds \cup {Absent}]

Locations == { [latitude |-> "40N", longitude |-> "70W"] }

VehicleLocationData == [vehicle_id : VehicleIds \cup {Absent}, location : Locations]

VehicleAssignedData ==
    UNION { Dropped([vehicle_id |-> v, carrier_id |-> c, driver_id |-> d],
                    {"vehicle_id", "carrier_id", "driver_id"}) :
            v \in VehicleIds, c \in CarrierIds, d \in DriverIds }

\* the schema's StatusData names the field new_status; the handlers read "status"
StatusFields ==
    { [status |-> Absent, new_status |-> "AVAILABLE"],
      [status |-> "AVAILABLE", new_status |-> "AVAILABLE"],
      [status |-> "OFF_DUTY", new_status |-> Absent] }

VehicleStatusData ==
    { [vehicle_id |-> v, status |-> s.status, new_status |-> s.new_status] :
        v \in VehicleIds, s \in StatusFields }
    \cup { [vehicle_id |-> Absent, status |-> "AVAILABLE", new_status |-> "AVAILABLE"] }

DriverStatusData ==
    { [driver_id |-> d, status |-> s.status, new_status |-> s.new_status] :
        d \in DriverIds, s \in StatusFields }
    \cup { [driver_id |-> Absent, status |-> "AVAILABLE", new_status |-> "AVAILABLE"] }

DriverAssignedData ==
    UNION { Dropped([driver_id |-> d, load_id |-> l, vehicle_id |-> v],
                    {"driver_id", "load_id", "vehicle_id"}) :
            d \in DriverIds, l \in LoadIds, v \in VehicleIds }

DriverLocationData == [driver_id : DriverIds \cup {Absent}, location : Locations]

\* ROUTE_OPTIMIZED as the synchronizer reads it (load_id, distance, duration) and as
\* the optimizer publishes it (none of the three keys)
RouteOptimizedData ==
    UNION { { [route_id |-> r, load_id |-> l, driver_id |-> d, vehicle_id |-> v,
               distance |-> "120mi", duration |-> "240min"],
              [route_id |-> r, load_id |-> Absent, driver_id |-> d, vehicle_id |-> v,
               distance |-> Absent, duration |-> Absent],
              [route_id |-> r, load_id |-> l, driver_id |-> Absent, vehicle_id |-> Absent,
               distance |-> "120mi", duration |-> "240min"],
              [route_id |-> Absent, load_id |-> l, driver_id |-> d, vehicle_id |-> v,
               distance |-> "120mi", duration |-> "240min"] } :
            r \in RouteIds, l \in LoadIds, d \in DriverIds, v \in VehicleIds }

RouteCompletedData == [route_id : RouteIds \cup {Absent}]

DataOf(type) ==
    CASE type = "LOAD_CREATED" -> LoadCreatedData
      [] type = "LOAD_ASSIGNED" -> LoadAssignedData
      [] type = "LOAD_DELIVERED" -> LoadStatusData
      [] type = "LOAD_CANCELLED" -> LoadStatusData
      [] type = "LOAD_PICKED_UP" -> LoadStatusData
      [] type = "VEHICLE_LOCATION_UPDATED" -> VehicleLocationData
      [] type = "VEHICLE_ASSIGNED" -> VehicleAssignedData
      [] type = "VEHICLE_STATUS_CHANGED" -> VehicleStatusData
      [] type = "DRIVER_STATUS_CHANGED" -> DriverStatusData
      [] type = "DRIVER_ASSIGNED" -> DriverAssignedData
      [] type = "DRIVER_LOCATION_UPDATED" -> DriverLocationData
      [] type = "ROUTE_OPTIMIZED" -> RouteOptimizedData
      [] type = "ROUTE_COMPLETED" -> RouteCompletedData

\* the event types the synchronizer maps to a mutation
SyncedTypes ==
    { "LOAD_CREATED", "LOAD_ASSIGNED", "LOAD_DELIVERED", "LOAD_CANCELLED",
      "VEHICLE_LOCATION_UPDATED", "VEHICLE_ASSIGNED", "VEHICLE_STATUS_CHANGED",
      "DRIVER_STATUS_CHANGED", "DRIVER_ASSIGNED", "DRIVER_LOCATION_UPDATED",
      "ROUTE_OPTIMIZED", "ROUTE_COMPLETED" }

\* LOAD_PICKED_UP stands for the event types the synchronizer has no mutation for
EventTypes == SyncedTypes \cup {"LOAD_PICKED_UP"}

EnvelopesOf(type) == {Event(type, ts, d) : ts \in Timestamps, d \in DataOf(type)}

Envelopes == UNION {EnvelopesOf(type) : type \in EventTypes}

\* ------------------------------------------------------------------ GraphSyncService

\* A handler that raises leaves the graph as it was when the exception occurred:
\* handle_event catches and logs every exception.

_handle_load_created(g, e) ==
    LET data == e.data
        load_id == Or(get(data, "id"), get(data, "load_id"))
    IN IF ~Truthy(load_id) THEN g
       ELSE LET g1 == create_load_node(g, str(load_id), get(data, "customer_id"),
                          get(data, "pickup_location"), get(data, "delivery_location"),
                          get(data, "weight"), get_default(data, "status", "PENDING"),
                          e.timestamp)
            IN IF Truthy(get(data, "customer_id"))
               THEN create_customer_load_relationship(g1,
                        str(get(data, "customer_id")), str(load_id))
               ELSE g1

_handle_load_assigned(g, e) ==
    LET data == e.data
        load_id == get(data, "load_id")
        driver_id == get(data, "driver_id")
        vehicle_id == get(data, "vehicle_id")
    IN IF ~Truthy(load_id) THEN g
       ELSE LET g1 == IF Truthy(driver_id)
                      THEN create_driver_load_assignment(
                               create_driver_node_if_not_exists(g, str(driver_id)),
                               str(driver_id), str(load_id), e.timestamp)
                      ELSE g
            IN IF Truthy(vehicle_id)
               THEN create_vehicle_load_assignment(
                        create_vehicle_node_if_not_exists(g1, str(vehicle_id)),
                        str(vehicle_id), str(load_id), e.timestamp)
               ELSE g1

_handle_load_delivered(g, e) ==
    LET load_id == get(e.data, "load_id")
    IN IF Truthy(load_id)
       THEN update_load_status(g, str(load_id), "DELIVERED", e.timestamp, None)
       ELSE g

_handle_load_cancelled(g, e) ==
    LET load_id == get(e.data, "load_id")
    IN IF Truthy(load_id)
       THEN remove_load_assignments(
                update_load_status(g, str(load_id), "CANCELLED", None, e.timestamp),
                str(load_id))
       ELSE g

\* event.location: the event model declares no such field, the access raises
_handle_vehicle_location_updated(g, e) ==
    LET vehicle_id == get(e.data, "vehicle_id")
    IN IF ~HasAttr(e, "location") THEN g
       ELSE LET location == e.location
            IN IF Truthy(vehicle_id) /\ Truthy(location)
               THEN update_vehicle_location(g, str(vehicle_id), location.latitude,
                                            location.longitude, e.timestamp)
               ELSE g

_handle_vehicle_assigned(g, e) ==
    LET data == e.data
        vehicle_id == get(data, "vehicle_id")
        carrier_id == get(data, "carrier_id")
        driver_id == get(data, "driver_id")
    IN IF ~Truthy(vehicle_id) THEN g
       ELSE LET g1 == create_vehicle_node_if_not_exists(g, str(vehicle_id))
                g2 == IF Truthy(carrier_id)
                      THEN create_vehicle_carrier_relationship(g1, str(vehicle_id),
                                                               str(carrier_id))
                      ELSE g1
            IN IF Truthy(driver_id)
               THEN create_driver_vehicle_relationship(
                        create_driver_node_if_not_exists(g2, str(driver_id)),
                        str(driver_id), str(vehicle_id), e.timestamp)
               ELSE g2

_handle_vehicle_status_changed(g, e) ==
    LET vehicle_id == get(e.data, "vehicle_id")
        status == get(e.data, "status")
    IN IF Truthy(vehicle_id) /\ Truthy(status)
       THEN update_vehicle_status(g, str(vehicle_id), status, e.timestamp)
       ELSE g

_handle_driver_status_changed(g, e) ==
    LET driver_id == get(e.data, "driver_id")
        status == get(e.data, "status")
    IN IF Truthy(driver_id) /\ Truthy(status)
       THEN update_driver_status(create_driver_node_if_not_exists(g, str(driver_id)),
                                 str(driver_id), status, e.timestamp)
       ELSE g

_handle_driver_assigned(g, e) ==
    LET data == e.data
        driver_id == get(data, "driver_id")
        load_id == get(data, "load_id")
        vehicle_id == get(data, "vehicle_id")
    IN IF ~Truthy(driver_id) THEN g
       ELSE LET g1 == create_driver_node_if_not_exists(g, str(driver_id))
                g2 == IF Truthy(load_id)
                      THEN create_driver_load_assignment(g1, str(driver_id),
                                                         str(load_id), e.timestamp)
                      ELSE g1
            IN IF Truthy(vehicle_id)
               THEN create_driver_vehicle_relationship(g2, str(driver_id),
                                                       str(vehicle_id), e.timestamp)
               ELSE g2

\* event.location: the event model declares no such field, the access raises
_handle_driver_location_updated(g, e) ==
    LET driver_id == get(e.data, "driver_id")
    IN IF ~HasAttr(e, "location") THEN g
       ELSE LET location == e.location
            IN IF Truthy(driver_id) /\ Truthy(location)
               THEN update_driver_location(
                        create_driver_node_if_not_exists(g, str(driver_id)),
                        str(driver_id), location.latitude, location.longitude,
                        e.timestamp)
               ELSE g

_handle_route_optimized(g, e) ==
    LET data == e.data
        route_id == get(data, "route_id")
        load_id == get(data, "load_id")
        driver_id == get(data, "driver_id")
        vehicle_id == get(data, "vehicle_id")
    IN IF ~Truthy(route_id) THEN g
       ELSE LET g1 == create_route_node(g, str(route_id),
                          IF Truthy(load_id) THEN str(load_id) ELSE None,
                          get(data, "distance"), get(data, "duration"), e.timestamp)
                g2 == IF Truthy(load_id)
                      THEN create_route_load_relationship(g1, str(route_id), str(load_id))
                      ELSE g1
                g3 == IF Truthy(driver_id)
                      THEN create_route_driver_relationship(g2, str(route_id),
                                                            str(driver_id))
                      ELSE g2
            IN IF Truthy(vehicle_id)
               THEN create_route_vehicle_relationship(g3, str(route_id), str(vehicle_id))
               ELSE g3

_handle_route_completed(g, e) ==
    LET route_id == get(e.data, "route_id")
    IN IF Truthy(route_id)
       THEN update_route_status(g, str(route_id), "COMPLETED", e.timestamp)
       ELSE g

\* GraphSyncService.handle_event: route by event type; unknown types are no-ops
handle_event(g, e) ==
    CASE e.event_type = "LOAD_CREATED" -> _handle_load_created(g, e)
      [] e.event_type = "LOAD_ASSIGNED" -> _handle_load_assigned(g, e)
      [] e.event_type = "LOAD_DELIVERED" -> _handle_load_delivered(g, e)
      [] e.event_type = "LOAD_CANCELLED" -> _handle_load_cancelled(g, e)
      [] e.event_type = "VEHICLE_LOCATION_UPDATED" -> _handle_vehicle_location_updated(g, e)
      [] e.event_type = "VEHICLE_ASSIGNED" -> _handle_vehicle_assigned(g, e)
      [] e.event_type = "VEHICLE_STATUS_CHANGED" -> _handle_vehicle_status_changed(g, e)
      [] e.event_type = "DRIVER_STATUS_CHANGED" -> _handle_driver_status_changed(g, e)
      [] e.event_type = "DRIVER_ASSIGNED" -> _handle_driver_assigned(g, e)
      [] e.event_type = "DRIVER_LOCATION_UPDATED" -> _handle_driver_location_updated(g, e)
      [] e.event_type = "ROUTE_OPTIMIZED" -> _handle_route_optimized(g, e)
      [] e.event_type = "ROUTE_COMPLETED" -> _handle_route_completed(g, e)
      [] OTHER -> g

\* ------------------------------------------------------------------ graph specification

\* hist keeps the two envelopes processed last
Remember(h, e) == IF Len(h) < 2 THEN Append(h, e) ELSE Append(Tail(h), e)

InitGraph ==
    /\ graph = EmptyGraph
    /\ hist = <<>>
    /\ steps = 0
    /\ result = None

\* no event: what _parse_event returns for a message it drops
NoEvent == [event_type |-> None]

\* no consumer has joined the group yet: nothing published, fetched or committed
NoGroup ==
    [log |-> 0, since |-> 0, position |-> 0, committed |-> <<>>, inflight |-> 0,
     done |-> {}, alive |-> FALSE, crashes |-> 0]

\* TMSEventConsumer.__init__
InitDispatch ==
    /\ _running = FALSE
    /\ consumer = None
    /\ _handlers = <<>>
    /\ starting = 0
    /\ opened = 0
    /\ startError = FALSE
    /\ pc = "idle"
    /\ absorbed = None
    /\ event = NoEvent
    /\ handlers = <<>>
    /\ idx = 0
    /\ invoked = <<>>
    /\ pulled = 0
    /\ group = NoGroup

\* no optimization has been asked for: AdvancedRouteOptimizationService keeps no state
NoRequest ==
    [load_id |-> <<>>, in_graph |-> FALSE, weight_lbs |-> 0, volume_cubic_feet |-> <<>>,
     max_driver_distance_miles |-> 0]

NoResponse ==
    [success |-> FALSE, error |-> None, keys |-> {}, did |-> <<>>, selected_driver_id |-> 0,
     alternatives_considered |-> 0]

InitOptimize ==
    /\ fleet = <<>>
    /\ request = NoRequest
    /\ candidates = <<>>
    /\ scored = <<>>
    /\ response = NoResponse
    /\ stage = "idle"

\* optimize_route has not been called
NoAnswer ==
    [success |-> FALSE, error |-> None, keys |-> {}, raised |-> None, route_id |-> 0,
     load_id |-> None, did |-> <<>>, route_data |-> <<>>, given |-> <<>>]

\* route_optimizer = RouteOptimizationService(): no producer and no database manager yet
InitRoutes ==
    /\ routes = <<>>
    /\ bus = <<>>
    /\ _producer = None
    /\ _db_manager = None
    /\ answer = NoAnswer
    /\ calls = <<>>

\* MAPS_API_KEY is not set: self.gmaps = None
Init == InitGraph /\ InitDispatch /\ InitOptimize /\ InitRoutes /\ gmaps = None

\* one envelope of the given type is handed to GraphSyncService.handle_event
Process(type) ==
    /\ steps < MaxEvents
    /\ \E e \in EnvelopesOf(type) :
        /\ graph' = handle_event(graph, e)
        /\ hist' = Remember(hist, e)
    /\ steps' = steps + 1
    /\ result' = "processed"
    /\ UNCHANGED dispatchVars
    /\ UNCHANGED optVars
    /\ UNCHANGED routeVars
    /\ UNCHANGED group

LoadCreated == Process("LOAD_CREATED")
LoadAssigned == Process("LOAD_ASSIGNED")
LoadDelivered == Process("LOAD_DELIVERED")
LoadCancelled == Process("LOAD_CANCELLED")
LoadPickedUp == Process("LOAD_PICKED_UP")
VehicleLocationUpdated == Process("VEHICLE_LOCATION_UPDATED")
VehicleAssigned == Process("VEHICLE_ASSIGNED")
VehicleStatusChanged == Process("VEHICLE_STATUS_CHANGED")
DriverStatusChanged == Process("DRIVER_STATUS_CHANGED")
DriverAssigned == Process("DRIVER_ASSIGNED")
DriverLocationUpdated == Process("DRIVER_LOCATION_UPDATED")
RouteOptimized == Process("ROUTE_OPTIMIZED")
RouteCompleted == Process("ROUTE_COMPLETED")

Next ==
    \/ LoadCreated
    \/ LoadAssigned
    \/ LoadDelivered
    \/ LoadCancelled
    \/ LoadPickedUp
    \/ VehicleLocationUpdated
    \/ VehicleAssigned
    \/ VehicleStatusChanged
    \/ DriverStatusChanged
    \/ DriverAssigned
    \/ DriverLocationUpdated
    \/ RouteOptimized
    \/ RouteCompleted

\* the synchronizer fed with envelopes in any order, duplicates included
Spec == Init /\ [][Next]_vars

\* for comparison: handle_event without its try/except
Swallow_reraise(error) == "raised"

\* except Exception as e: logger.error(...) -- the error ends there
Swallow(error) == "swallowed"

\* handle_event is called while the graph store cannot be reached: the handler's
\* first query raises, nothing is written, and handle_event's except clause decides
\* what the caller sees
StoreFails ==
    /\ steps < MaxEvents
    /\ \E e \in Envelopes :
        /\ e.event_type \in SyncedTypes
        /\ result' = Swallow("ServiceUnavailable")
    /\ steps' = steps + 1
    /\ UNCHANGED <<graph, hist>>
    /\ UNCHANGED dispatchVars
    /\ UNCHANGED optVars
    /\ UNCHANGED routeVars
    /\ UNCHANGED group

NextFaulty ==
    \/ Next
    \/ StoreFails

\* the synchronizer with a store that may fail
SpecFaulty == Init /\ [][NextFaulty]_vars

\* ------------------------------------------------------------------ graph observations

Last == hist[Len(hist)]

LoadIdOf(e) == Or(get(e.data, "id"), get(e.data, "load_id"))

NodeCount(g, label, id) == Cardinality(MatchNodes(g, label, id))

RelCount(g, type, la, a, lb, b) == Cardinality(MatchRels(g, type, <<la, a>>, <<lb, b>>))

\* the single node of a key (only used where NodeCount = 1)
TheNode(g, label, id) == CHOOSE n \in MatchNodes(g, label, id) : TRUE

\* ASSIGNED_TO / TRANSPORTS relationships attached to a load, in either direction
LoadAssignments(g, l) ==
    {r \in g.rels : r.type \in {"ASSIGNED_TO", "TRANSPORTS"}
                    /\ (r.to = <<"Load", l>> \/ r.from = <<"Load", l>>)}

RouteStatus(g, r) ==
    IF MatchNodes(g, "Route", r) = {} THEN None ELSE TheNode(g, "Route", r).props.status

\* ------------------------------------------------------------------ claims: GraphSynchronizer

\* the step hands envelope e to GraphSyncService.handle_event
Processes(e) == steps' = steps + 1 /\ Last' = e

\* C1: handling the same envelope twice in immediate succession leaves the graph
\* (nodes, event-derived attributes, relationships) as handling it once does, for
\* every event type and from every reachable graph: the second handling changes
\* nothing. Values of the store's clock are the single token WallClock, so they take
\* no part in the comparison.
C1_HandleTwiceIsHandleOnce ==
    [][ (hist # <<>> /\ Processes(Last)) => graph' = graph ]_graphVars

\* C1 witness: a LOAD_ASSIGNED envelope was processed twice in succession and its
\* relationships are in the graph
C1_Witness ==
    /\ Len(hist) = 2
    /\ hist[1] = hist[2]
    /\ hist[2].event_type = "LOAD_ASSIGNED"
    /\ graph.rels # {}

Run(g, q) == handle_event(handle_event(g, q[1]), q[2])

\* C2: redelivering a processed suffix Q in its original order leaves the graph as
\* it was after Q was processed the first time (Q of two envelopes, after any
\* processed prefix)
C2_ReplaySafe ==
    \A e1 \in Envelopes, e2 \in Envelopes :
        Run(Run(graph, <<e1, e2>>), <<e1, e2>>) = Run(graph, <<e1, e2>>)

\* the properties LOAD_CREATED's payload gives the Load node
LoadAttributes(e) ==
    [ customer_id |-> get(e.data, "customer_id"),
      pickup_location |-> get(e.data, "pickup_location"),
      delivery_location |-> get(e.data, "delivery_location"),
      weight |-> get(e.data, "weight"),
      status |-> IF e.data.status = Absent THEN "PENDING" ELSE e.data.status,
      created_at |-> isoformat(e.timestamp) ]

HasLoadAttributes(n, a) ==
    \A k \in DOMAIN a : n.props[k] = a[k]

\* C3: processing LOAD_CREATED twice for one load id yields exactly one Load node
\* for the id, carrying the attributes of the payload processed last
C3_LoadCreatedTwice ==
    (/\ Len(hist) = 2
     /\ hist[1].event_type = "LOAD_CREATED" /\ hist[2].event_type = "LOAD_CREATED"
     /\ Truthy(LoadIdOf(hist[1])) /\ LoadIdOf(hist[1]) = LoadIdOf(hist[2]))
    => /\ NodeCount(graph, "Load", LoadIdOf(hist[2])) = 1
       /\ HasLoadAttributes(TheNode(graph, "Load", LoadIdOf(hist[2])),
                             LoadAttributes(hist[2]))

\* C3 witness: two LOAD_CREATED envelopes with different payloads were processed for
\* one load, and the node carries the second payload's weight
C3_Witness ==
    /\ Len(hist) = 2
    /\ hist[1].event_type = "LOAD_CREATED" /\ hist[2].event_type = "LOAD_CREATED"
    /\ Truthy(LoadIdOf(hist[1])) /\ LoadIdOf(hist[1]) = LoadIdOf(hist[2])
    /\ hist[1].data.weight # hist[2].data.weight
    /\ \E n \in graph.nodes :
        n.label = "Load" /\ n.id = LoadIdOf(hist[2]) /\ n.props.weight = hist[2].data.weight

FullAssignment(e) ==
    /\ e.event_type = "LOAD_ASSIGNED"
    /\ Truthy(get(e.data, "load_id"))
    /\ Truthy(get(e.data, "driver_id"))
    /\ Truthy(get(e.data, "vehicle_id"))

OneEdgeEach(g, e) ==
    /\ RelCount(g, "ASSIGNED_TO", "Driver", e.data.driver_id, "Load", e.data.load_id) = 1
    /\ RelCount(g, "TRANSPORTS", "Vehicle", e.data.vehicle_id, "Load", e.data.load_id) = 1

\* C4: processing LOAD_ASSIGNED (load, driver, vehicle) for an existing Load node,
\* once or repeatedly with the same payload, leaves exactly one ASSIGNED_TO edge
\* between the driver and the load and exactly one TRANSPORTS edge between the
\* vehicle and the load (Load nodes are never deleted, so the node that exists after
\* the event existed before it)
C4_AssignedOnceOrRepeatedly ==
    (/\ hist # <<>>
     /\ FullAssignment(Last)
     /\ MatchNodes(graph, "Load", Last.data.load_id) # {})
    => OneEdgeEach(graph, Last)

\* C4 witness: a complete LOAD_ASSIGNED was processed twice for a load whose node
\* exists, and one edge of each type is there
C4_Witness ==
    /\ Len(hist) = 2
    /\ hist[1] = hist[2]
    /\ FullAssignment(hist[2])
    /\ MatchNodes(graph, "Load", hist[2].data.load_id) # {}
    /\ OneEdgeEach(graph, hist[2])

\* C5: after LOAD_ASSIGNED and then LOAD_CANCELLED were processed for one load, no
\* ASSIGNED_TO and no TRANSPORTS edge attached to the load remains, while the
\* Driver and Vehicle nodes of the assignment (and the Load node) are still there
C5_CancelRemovesAssignments ==
    (/\ Len(hist) = 2
     /\ hist[1].event_type = "LOAD_ASSIGNED"
     /\ hist[2].event_type = "LOAD_CANCELLED"
     /\ Truthy(get(hist[1].data, "load_id"))
     /\ hist[1].data.load_id = hist[2].data.load_id)
    => LET a == hist[1].data
       IN /\ LoadAssignments(graph, a.load_id) = {}
          /\ Truthy(get(a, "driver_id")) => MatchNodes(graph, "Driver", a.driver_id) # {}
          /\ Truthy(get(a, "vehicle_id")) => MatchNodes(graph, "Vehicle", a.vehicle_id) # {}

\* C6: when a VEHICLE_LOCATION_UPDATED event is processed for a vehicle id that has
\* no Vehicle node yet, afterwards a Vehicle node with that id exists and carries
\* the event's latitude and longitude
C6_LocationCreatesVehicle ==
    [][ (/\ steps' = steps + 1
         /\ Last'.event_type = "VEHICLE_LOCATION_UPDATED"
         /\ Truthy(get(Last'.data, "vehicle_id"))
         /\ MatchNodes(graph, "Vehicle", Last'.data.vehicle_id) = {})
        => \E n \in graph'.nodes :
              /\ n.label = "Vehicle" /\ n.id = Last'.data.vehicle_id
              /\ n.props.latitude = Last'.data.location.latitude
              /\ n.props.longitude = Last'.data.location.longitude ]_graphVars

NodeKeys ==
    ({"Load"} \X LoadIds) \cup ({"Driver"} \X DriverIds) \cup ({"Vehicle"} \X VehicleIds)
    \cup ({"Carrier"} \X CarrierIds) \cup ({"Customer"} \X CustomerIds)
    \cup ({"Route"} \X RouteIds)

\* C7: after any sequence of processed events (duplicates, any order) the graph
\* holds at most one node per (label, external id)
C7_OneNodePerId ==
    /\ \A k \in NodeKeys : NodeCount(graph, k[1], k[2]) <= 1
    /\ \A n \in graph.nodes : <<n.label, n.id>> \in NodeKeys

\* C7 witness: an envelope that creates nodes was processed twice, and Load, Driver
\* and Vehicle nodes exist
C7_Witness ==
    /\ Len(hist) = 2
    /\ hist[1] = hist[2]
    /\ {"Load", "Driver", "Vehicle"} \subseteq {n.label : n \in graph.nodes}

\* C8: a Route node is ACTIVE once ROUTE_OPTIMIZED was processed for it and
\* COMPLETED once ROUTE_COMPLETED was processed for it, and COMPLETED is terminal:
\* no later processed event changes the status of a COMPLETED route
C8_RouteLifecycle ==
    [][ \A r \in RouteIds :
          /\ RouteStatus(graph, r) = "COMPLETED" => RouteStatus(graph', r) = "COMPLETED"
          /\ (/\ steps' = steps + 1
              /\ Last'.event_type = "ROUTE_OPTIMIZED"
              /\ get(Last'.data, "route_id") = r
              /\ RouteStatus(graph, r) # "COMPLETED")
             => RouteStatus(graph', r) = "ACTIVE"
          /\ (/\ steps' = steps + 1
              /\ Last'.event_type = "ROUTE_COMPLETED"
              /\ get(Last'.data, "route_id") = r
              /\ RouteStatus(graph, r) # None)
             => RouteStatus(graph', r) = "COMPLETED" ]_graphVars

\* C16: GraphSyncService.handle_event never raises to its caller. When a graph
\* mutation fails the error is swallowed: the call ends normally, the graph is as it
\* was, and the next envelope can be processed.
C16_HandleEventNeverRaises ==
    [][ steps' = steps + 1
        => /\ result' \in {"processed", "swallowed"}
           /\ (result' = "swallowed" => graph' = graph) ]_vars

\* C16 witness: a mutation failed on a graph that already holds nodes, and further
\* envelopes can still be processed
C16_Witness ==
    /\ result = "swallowed"
    /\ graph.nodes # {}
    /\ steps < MaxEvents

\* ------------------------------------------------------------------ TMSEventConsumer

\* the event types the dispatcher's messages carry
DispatchTypes == {"LOAD_CREATED", "ROUTE_DEVIATION"}

\* the callables the repository registers as handlers (get_consumer)
Handlers == {"handle_load_created", "handle_route_deviation"}

\* the GraphSynchronizer pass, as it would show in the calls of a dispatch
GraphSyncPass == "GraphSyncService.handle_event"

\* a handler returns, or raises an Exception
Outcomes == {"returned", "raised"}

\* A bus message: the event_type header (None when missing, "BOGUS" when no
\* EventType has that value) and the deserialized value: not a dictionary, a
\* dictionary the event class rejects, or a dictionary of a valid event
Messages ==
    [ header : DispatchTypes \cup {None, "BOGUS"},
      value : [kind : {"not_dict", "invalid", "valid"}, event_type : DispatchTypes] ]

\* dict.get(key, []) on _handlers
HandlersFor(h, type) == IF type \in DOMAIN h THEN h[type] ELSE <<>>

\* list.remove(x): the first occurrence goes
RemoveFirst(seq, x) ==
    LET i == CHOOSE j \in 1..Len(seq) : seq[j] = x /\ \A k \in 1..(j - 1) : seq[k] # x
    IN SubSeq(seq, 1, i - 1) \o SubSeq(seq, i + 1, Len(seq))

Contains(seq, x) == \E i \in 1..Len(seq) : seq[i] = x

\* del d[key]
Without(h, type) == [t \in DOMAIN h \ {type} |-> h[t]]

\* TMSEventConsumer._parse_event: the event, or None
\* an exception that leaves _parse_event instead of a value
ParseRaised == [event_type |-> "raised"]

\* for comparison: _parse_event without its except clause
ParseError_uncaught == ParseRaised

\* except Exception: log, return None -- what a schema validation failure in
\* event_class(**event_data) comes to
ParseError == NoEvent

_parse_event(m) ==
    IF m.header = None THEN NoEvent
    ELSE IF m.header \notin EventTypes \cup DispatchTypes THEN NoEvent
    ELSE IF m.value.kind = "not_dict" THEN NoEvent
    ELSE IF m.value.kind = "invalid" THEN ParseError
    ELSE [event_type |-> m.value.event_type]

\* for comparison: _handle_event without the early return, going on to a handler
\* that is not there
NoHandlers_unguarded == "failed"

\* if not handlers: log at debug level, return
NoHandlers == "waiting"

\* for comparison: consume_events handing each dispatch to a task of its own
DispatchAwaited_spawned == FALSE

\* await self._handle_event(event): the loop goes on only when the dispatch returned
DispatchAwaited == TRUE

\* for comparison: a loop without the try/except, where a raising handler ends
\* the dispatch
AfterHandler_unguarded(outcome) == IF outcome = "raised" THEN "propagate" ELSE "next"

\* try: await handler(event) / except Exception: log -- whatever the handler's
\* outcome, the for loop goes on with the next handler
AfterHandler(outcome) == "next"

\* start(): returns at once when already running, else creates an AIOKafkaConsumer
\* and awaits its start. Nothing keeps a second call from entering while an earlier
\* one is still suspended there.
StartCall ==
    /\ starting < MaxStarts
    /\ opened < MaxStarts
    /\ IF _running
       THEN UNCHANGED <<consumer, starting, opened>>
       ELSE /\ consumer' = "AIOKafkaConsumer"
            /\ starting' = starting + 1
            /\ opened' = opened + 1
    /\ UNCHANGED <<_running, _handlers, startError, pc, absorbed, event, handlers, idx, invoked,
                   pulled>>
    /\ UNCHANGED graphVars
    /\ UNCHANGED optVars
    /\ UNCHANGED routeVars
    /\ UNCHANGED group

\* await self.consumer.start() returned
StartConnected ==
    /\ starting > 0
    /\ _running' = TRUE
    /\ starting' = starting - 1
    /\ startError' = FALSE
    /\ UNCHANGED <<consumer, _handlers, opened, pc, absorbed, event, handlers, idx, invoked,
                   pulled>>
    /\ UNCHANGED graphVars
    /\ UNCHANGED optVars
    /\ UNCHANGED routeVars
    /\ UNCHANGED group

\* await self.consumer.start() raised: logged and re-raised to the caller
StartFailed ==
    /\ starting > 0
    /\ starting' = starting - 1
    /\ opened' = opened - 1
    /\ startError' = TRUE
    /\ UNCHANGED <<_running, consumer, _handlers, pc, absorbed, event, handlers, idx, invoked,
                   pulled>>
    /\ UNCHANGED graphVars
    /\ UNCHANGED optVars
    /\ UNCHANGED routeVars
    /\ UNCHANGED group

\* stop(): clears _running and stops the AIOKafkaConsumer self.consumer refers to
Stop ==
    /\ IF consumer # None /\ _running
       THEN _running' = FALSE /\ opened' = opened - 1
       ELSE UNCHANGED <<_running, opened>>
    /\ UNCHANGED <<consumer, _handlers, starting, startError, pc, absorbed, event, handlers, idx,
                   invoked, pulled>>
    /\ UNCHANGED graphVars
    /\ UNCHANGED optVars
    /\ UNCHANGED routeVars
    /\ UNCHANGED group

\* register_handler is synchronous and is called while no dispatch is under way
RegisterHandler ==
    /\ pc # "handling"
    /\ \E type \in DispatchTypes, h \in Handlers :
        /\ Len(HandlersFor(_handlers, type)) < MaxHandlers
        /\ _handlers' = (type :> Append(HandlersFor(_handlers, type), h))
                        @@ _handlers
    /\ UNCHANGED startVars
    /\ UNCHANGED <<_running, consumer, pc, absorbed, event, handlers, idx, invoked,
                   pulled>>
    /\ UNCHANGED graphVars
    /\ UNCHANGED optVars
    /\ UNCHANGED routeVars
    /\ UNCHANGED group

UnregisterHandler ==
    /\ pc # "handling"
    /\ \E type \in DispatchTypes, h \in Handlers :
        IF type \in DOMAIN _handlers /\ Contains(_handlers[type], h)
        THEN LET rest == RemoveFirst(_handlers[type], h)
             IN _handlers' = IF rest = <<>> THEN Without(_handlers, type)
                             ELSE [_handlers EXCEPT ![type] = rest]
        ELSE UNCHANGED _handlers
    /\ UNCHANGED startVars
    /\ UNCHANGED <<_running, consumer, pc, absorbed, event, handlers, idx, invoked,
                   pulled>>
    /\ UNCHANGED graphVars
    /\ UNCHANGED optVars
    /\ UNCHANGED routeVars
    /\ UNCHANGED group

\* consume_events is entered: it returns at once unless the consumer was started
ConsumeEvents ==
    /\ pc = "idle"
    /\ pc' = IF ~_running \/ consumer = None THEN "idle" ELSE "waiting"
    /\ UNCHANGED startVars
    /\ UNCHANGED <<_running, consumer, _handlers, absorbed, event, handlers, idx,
                   invoked, pulled>>
    /\ UNCHANGED graphVars
    /\ UNCHANGED optVars
    /\ UNCHANGED routeVars
    /\ UNCHANGED group

\* async for message in self.consumer: one message arrives; it is parsed and, when
\* it decodes, _handle_event begins and its first handler is called
Pull ==
    /\ pc = "waiting" \/ (pc = "handling" /\ ~DispatchAwaited)
    /\ pulled < MaxMessages
    /\ \E m \in Messages :
        IF ~_running
        THEN pc' = "ended" /\ UNCHANGED <<absorbed, event, handlers, idx, invoked>>
        ELSE LET e == _parse_event(m)
             IN IF e = ParseRaised
                THEN pc' = "failed" /\ UNCHANGED <<absorbed, event, handlers, idx, invoked>>
                ELSE IF e = NoEvent
                THEN /\ event' = e
                     /\ absorbed' = "dropped"
                     /\ UNCHANGED <<pc, handlers, idx, invoked>>
                ELSE /\ event' = e
                     /\ handlers' = HandlersFor(_handlers, e.event_type)
                     /\ invoked' = <<>>
                     /\ idx' = 1
                     /\ pc' = IF handlers' = <<>> THEN NoHandlers ELSE "handling"
                     /\ UNCHANGED absorbed
    /\ pulled' = pulled + 1
    /\ UNCHANGED startVars
    /\ UNCHANGED <<_running, consumer, _handlers>>
    /\ UNCHANGED graphVars
    /\ UNCHANGED optVars
    /\ UNCHANGED routeVars
    /\ UNCHANGED group

\* one turn of _handle_event's for loop: the handler awaited returns or raises, and
\* the next one, if any, is called
InvokeHandler ==
    /\ pc = "handling"
    /\ \E outcome \in Outcomes :
        /\ invoked' = Append(invoked, [handler |-> handlers[idx], outcome |-> outcome])
        /\ IF outcome = "raised" /\ AfterHandler(outcome) = "propagate"
           THEN pc' = "failed" /\ UNCHANGED <<idx, absorbed>>
           ELSE /\ idx' = idx + 1
                /\ pc' = IF idx' > Len(handlers) THEN "waiting" ELSE "handling"
                /\ absorbed' = IF outcome = "raised" THEN "raised" ELSE absorbed
    /\ UNCHANGED startVars
    /\ UNCHANGED <<_running, consumer, _handlers, event, handlers, pulled>>
    /\ UNCHANGED graphVars
    /\ UNCHANGED optVars
    /\ UNCHANGED routeVars
    /\ UNCHANGED group

\* the consumer was stopped: the iteration over it ends
LoopEnds ==
    /\ pc = "waiting"
    /\ ~_running
    /\ pc' = "ended"
    /\ UNCHANGED startVars
    /\ UNCHANGED <<_running, consumer, _handlers, absorbed, event, handlers, idx,
                   invoked, pulled>>
    /\ UNCHANGED graphVars
    /\ UNCHANGED optVars
    /\ UNCHANGED routeVars
    /\ UNCHANGED group

NextDispatch ==
    \/ StartCall
    \/ StartConnected
    \/ StartFailed
    \/ Stop
    \/ RegisterHandler
    \/ UnregisterHandler
    \/ ConsumeEvents
    \/ Pull
    \/ InvokeHandler
    \/ LoopEnds

\* lifespan shutdown: consumer_task.cancel(), await consumer_task, consumer.stop().
\* The task is suspended either in the async for or in the handler it awaits; the
\* CancelledError is raised there, and no except Exception clause catches it.
Shutdown ==
    /\ pc # "idle"
    /\ IF pc = "handling"
       THEN /\ invoked' = Append(invoked, [handler |-> handlers[idx],
                                          outcome |-> "cancelled"])
            /\ pc' = "cancelled"
       ELSE IF pc = "waiting"
       THEN pc' = "cancelled" /\ UNCHANGED invoked
       ELSE UNCHANGED <<pc, invoked>>
    /\ IF consumer # None /\ _running
       THEN _running' = FALSE /\ opened' = opened - 1
       ELSE UNCHANGED <<_running, opened>>
    /\ UNCHANGED <<consumer, _handlers, starting, startError, absorbed, event, handlers,
                   idx, pulled>>
    /\ UNCHANGED graphVars
    /\ UNCHANGED optVars
    /\ UNCHANGED routeVars
    /\ UNCHANGED group

NextLifespan ==
    \/ NextDispatch
    \/ Shutdown

\* the dispatcher: lifecycle calls, registrations and the consumption loop
SpecDispatch == Init /\ [][NextDispatch]_vars

\* the dispatcher as the application runs it: the same, and the lifespan's shutdown
SpecLifespan == Init /\ [][NextLifespan]_vars

\* ------------------------------------------------------------------ claims: EventDispatcher

InvokedHandlers == [i \in 1..Len(invoked) |-> invoked[i].handler]

\* C9: when one envelope is dispatched, every handler registered for its event type
\* is invoked exactly once, in registration order, also when an earlier handler
\* raises; the exception does not reach the consumption loop. Every step that ends
\* a dispatch ends it back in the loop, with the calls made being the registered
\* handlers in their order.
C9_EveryHandlerOnceInOrder ==
    [][ (pc = "handling" /\ pc' # "handling")
        => /\ pc' = "waiting"
           /\ InvokedHandlers' = HandlersFor(_handlers, event.event_type) ]_vars

\* C9 witness: a dispatch is over in which the first of two different handlers
\* raised and the second was still invoked
C9_Witness ==
    /\ pc = "waiting"
    /\ Len(invoked) = 2
    /\ invoked[1].outcome = "raised"
    /\ invoked[1].handler # invoked[2].handler
    /\ InvokedHandlers = handlers

SyncPasses == Cardinality({i \in 1..Len(invoked) : invoked[i].handler = GraphSyncPass})

\* C10: for every envelope that is decoded and dispatched, the GraphSynchronizer
\* pass (GraphSyncService.handle_event) runs exactly once, whether or not a handler
\* is registered for the envelope's type and whether or not a handler raised
C10_OneSyncPassPerEnvelope ==
    (event # NoEvent /\ pc = "waiting") => SyncPasses = 1

\* C11: dispatching an envelope whose event type has no registered handler invokes
\* no handler and raises no error: the dispatch is over at once and the loop is where
\* it takes the next message (or has ended because the consumer was stopped).
C11_NoHandlerNoCall ==
    (event # NoEvent /\ handlers = <<>>) => (invoked = <<>> /\ pc \in {"waiting", "ended"})

\* C11 witness: an envelope was decoded while handlers were registered for another
\* type only; the loop is running and can take a further message
C11_Witness ==
    /\ event # NoEvent
    /\ handlers = <<>>
    /\ _handlers # <<>>
    /\ event.event_type \notin DOMAIN _handlers
    /\ pc = "waiting"
    /\ _running
    /\ pulled < MaxMessages

\* C12: at most one message is in flight. A message is pulled only while no dispatch
\* is under way, and every handler of the message dispatched before it has returned.
C12_OneMessageInFlight ==
    [][ pulled' = pulled + 1
        => /\ pc = "waiting"
           /\ (event # NoEvent => InvokedHandlers = handlers) ]_vars

\* C12 witness: a second message is being handled after a first one whose handler
\* raised
C12_Witness ==
    /\ pulled >= 2
    /\ pc = "handling"
    /\ invoked = <<>>
    /\ absorbed = "raised"

\* C13: when the dispatcher is stopped while a message is being handled, that
\* message's handlers run to completion (none is cancelled), and no message pulled
\* after the stop request is dispatched to a handler.
C13_StopLetsHandlersFinish ==
    [][ /\ (pc = "handling" /\ pc' # "handling")
            => /\ InvokedHandlers' = handlers
               /\ \A i \in 1..Len(invoked') : invoked'[i].outcome \in Outcomes
        /\ (~_running /\ pulled' = pulled + 1) => pc' # "handling" ]_vars

\* C14: start() is idempotent. A step taken while the dispatcher is running, or while
\* an earlier start() is still connecting, opens no further bus consumer.
C14_StartIdempotent ==
    [][ (_running \/ starting > 0) => opened' <= opened ]_vars

ResultCap == 10     \* LIMIT 10
MaxCopies == 4      \* how often one kind of path may occur in the fleet

Null == <<>>

COALESCE(m, default) == IF m = Null THEN default ELSE m[1]

RECURSIVE Sum(_)
Sum(s) == IF s = <<>> THEN 0 ELSE Head(s) + Sum(Tail(s))

\* Cypher avg(): null over no rows
avg(s) == IF s = <<>> THEN Null ELSE <<Sum(s) \div Len(s)>>

Min(a, b) == IF a <= b THEN a ELSE b

Max(a, b) == IF a >= b THEN a ELSE b

\* the kinds of Driver-DRIVES->Vehicle-OWNED_BY->Carrier path a fleet is made of:
\* on_time_percentage is that of the carrier's Performance node (no code creates one, the
\* fleet has at most one per carrier), ratings are the driver_rating of the driver's
\* DELIVERED loads, transports the statuses of the loads the vehicle has a TRANSPORTS
\* edge to
Path(ds, vs, loc, d, cw, cv, otp, rs, hos, tl) ==
    [driver_status |-> ds, vehicle_status |-> vs, located |-> loc, distance_miles |-> d,
     capacity_weight |-> cw, capacity_volume |-> cv, on_time_percentage |-> otp,
     ratings |-> rs, hours_of_service_remaining |-> hos, transports |-> tl]

Kinds ==
    << Path("AVAILABLE", "AVAILABLE", TRUE, 15, 50000, 2500, <<75>>, <<>>, <<110>>, <<>>),
       Path("AVAILABLE", "AVAILABLE", TRUE, 30, 50000, 2500, <<100>>, <<5>>, Null, <<"DELIVERED">>),
       Path("AVAILABLE", "AVAILABLE", TRUE, 60, 35000, 3000, Null, <<>>, <<110>>, <<"IN_TRANSIT">>),
       Path("AVAILABLE", "AVAILABLE", TRUE, 50, 30000, 1500, Null, <<3, 5>>, <<25>>, <<"ASSIGNED">>),
       Path("AVAILABLE", "AVAILABLE", TRUE, 15, 20000, 2500, <<75>>, <<>>, <<110>>, <<>>),
       Path("AVAILABLE", "AVAILABLE", TRUE, 15, 50000, 1000, <<75>>, <<>>, <<25>>, <<>>),
       Path("ON_DUTY", "AVAILABLE", TRUE, 15, 50000, 2500, <<75>>, <<>>, <<110>>, <<>>),
       Path("AVAILABLE", "MAINTENANCE", TRUE, 15, 50000, 2500, <<75>>, <<>>, <<110>>, <<>>),
       Path("AVAILABLE", "AVAILABLE", FALSE, 0, 50000, 2500, <<75>>, <<>>, <<110>>, <<"ASSIGNED">>) >>

\* the first three kinds occur 0, 1 or MaxCopies times, the others at most once
Copies(k) == IF k <= 3 THEN {0, 1, MaxCopies} ELSE {0, 1}

RECURSIVE Repeated(_, _, _)
Repeated(count, k, n) ==
    IF k > Len(Kinds) THEN <<>>
    ELSE IF n < count[k] THEN <<Kinds[k]>> \o Repeated(count, k, n + 1)
    ELSE Repeated(count, k + 1, 0)

Reverse(s) == [i \in 1..Len(s) |-> s[Len(s) + 1 - i]]

\* d.id, v.id and c.id of a path: its number
WithIds(s) ==
    [i \in 1..Len(s) |->
        [driver_id |-> i, vehicle_id |-> i, carrier_id |-> i, path |-> s[i]]]

\* the order in which the store scans the paths is not specified: both directions occur
Fleets ==
    { IF backward THEN Reverse(WithIds(Repeated(count, 1, 0))) ELSE WithIds(Repeated(count, 1, 0)) :
        count \in {c \in [1..Len(Kinds) -> {0, 1, MaxCopies}] : \A k \in 1..Len(Kinds) : c[k] \in Copies(k)},
        backward \in BOOLEAN }

\* load dictionaries and constraints: load_id and volume_cubic_feet may be missing keys;
\* in_graph tells whether the graph has a Load node for the load
Requests ==
    [load_id : {Null, <<"L1">>}, in_graph : BOOLEAN, weight_lbs : {30000},
     volume_cubic_feet : {Null, <<1500>>}, max_driver_distance_miles : {50, 75}]

\* the two WHERE clauses of the query (lines 174-188)
Matches_any_vehicle(p, max_distance, required_weight, required_volume) ==
    /\ p.driver_status = "AVAILABLE"
    /\ p.located
    /\ p.distance_miles <= max_distance
    /\ p.capacity_weight >= required_weight
    /\ p.capacity_volume >= required_volume

\* the query with a filter on loads still being carried
Matches_no_outstanding_load(p, max_distance, required_weight, required_volume) ==
    /\ p.driver_status = "AVAILABLE"
    /\ p.vehicle_status = "AVAILABLE"
    /\ p.located
    /\ p.distance_miles <= max_distance
    /\ p.capacity_weight >= required_weight
    /\ p.capacity_volume >= required_volume
    /\ \A i \in DOMAIN p.transports : p.transports[i] \in {"DELIVERED", "CANCELLED"}

Matches(p, max_distance, required_weight, required_volume) ==
    /\ p.driver_status = "AVAILABLE"
    /\ p.vehicle_status = "AVAILABLE"
    /\ p.located
    /\ p.distance_miles <= max_distance
    /\ p.capacity_weight >= required_weight
    /\ p.capacity_volume >= required_volume

\* the RETURN clause (lines 198-216), the fields that are used
Returned(f) ==
    [driver_id |-> f.driver_id, vehicle_id |-> f.vehicle_id, carrier_id |-> f.carrier_id,
     hos_remaining |-> f.path.hours_of_service_remaining,
     vehicle_capacity_weight |-> f.path.capacity_weight,
     vehicle_capacity_volume |-> f.path.capacity_volume,
     distance_miles |-> f.path.distance_miles,
     driver_rating |-> COALESCE(avg(f.path.ratings), 4),
     carrier_performance |-> COALESCE(f.path.on_time_percentage, 85)]

\* ORDER BY distance_miles ASC, driver_rating DESC, carrier_performance DESC as one key
OrderKey_rating_first(row) ==
    (5 - row.driver_rating) * 100000 + row.distance_miles * 1000 + (100 - row.carrier_performance)

OrderKey(row) ==
    row.distance_miles * 100000 + (5 - row.driver_rating) * 1000 + (100 - row.carrier_performance)

\* position of element i when keys are sorted ascending, equal keys keeping their order
Rank(keys, i) ==
    1 + Cardinality({j \in DOMAIN keys : keys[j] < keys[i] \/ (keys[j] = keys[i] /\ j < i)})

SortedBy(s, keys) ==
    [p \in DOMAIN s |-> s[CHOOSE i \in DOMAIN s : Rank(keys, i) = p]]

Limit(s) == SubSeq(s, 1, Min(Len(s), ResultCap))

\* get('volume_cubic_feet', 0) and get('weight_lbs', 0) of the load dictionary
required_volume(load) == COALESCE(load.volume_cubic_feet, 0)

required_weight(load) == load.weight_lbs

_find_optimization_candidates(f, load, max_distance) ==
    LET Test(x) == Matches(x.path, max_distance, required_weight(load), required_volume(load))
        matched == SelectSeq(f, Test)
        rows == [i \in DOMAIN matched |-> Returned(matched[i])]
    IN  Limit(SortedBy(rows, [i \in DOMAIN rows |-> OrderKey(rows[i])]))

\* an optimization is asked for: a fleet in the graph, a load and constraints
RequestOptimization ==
    /\ stage = "idle"
    /\ \E f \in Fleets, r \in Requests :
        /\ fleet' = f
        /\ request' = r
    /\ stage' = "requested"
    /\ UNCHANGED <<candidates, scored, response>>
    /\ UNCHANGED graphVars
    /\ UNCHANGED dispatchVars
    /\ UNCHANGED routeVars
    /\ UNCHANGED group

\* _find_optimization_candidates is called for the request
FindCandidates ==
    /\ stage = "requested"
    /\ candidates' = _find_optimization_candidates(fleet, request, request.max_driver_distance_miles)
    /\ stage' = "found"
    /\ UNCHANGED <<fleet, request, scored, response>>
    /\ UNCHANGED graphVars
    /\ UNCHANGED dispatchVars
    /\ UNCHANGED routeVars
    /\ UNCHANGED group

\* ------------------------------------------------------------------ scoring
\* Scores are floats in the code.  Here a sub-score is a whole number of 1/Unit points and
\* a composite score a whole number of 1/(100 * Unit) points; the fleets and requests are
\* chosen so that every division below is exact.

Unit == 420

_calculate_proximity_score(distance_miles, max_distance) ==
    IF distance_miles > max_distance THEN 0
    ELSE Max(0, (100 * Unit * (max_distance - distance_miles)) \div max_distance)

\* utilizations are in 1/Unit; 0.6 <= avg <= 0.9 is compared after multiplying by 10
_calculate_vehicle_suitability_score(candidate, load) ==
    LET vehicle_weight_capacity == candidate.vehicle_capacity_weight
        vehicle_volume_capacity == candidate.vehicle_capacity_volume
        weight_utilization ==
            IF vehicle_weight_capacity > 0
            THEN (Unit * required_weight(load)) \div vehicle_weight_capacity ELSE 0
        volume_utilization ==
            IF vehicle_volume_capacity > 0
            THEN (Unit * required_volume(load)) \div vehicle_volume_capacity ELSE 0
        avg_utilization == (weight_utilization + volume_utilization) \div 2
    IN  IF \/ vehicle_weight_capacity < required_weight(load)
           \/ vehicle_volume_capacity < required_volume(load)
        THEN 0
        ELSE IF 6 * Unit <= 10 * avg_utilization /\ 10 * avg_utilization <= 9 * Unit
        THEN 100 * Unit
        ELSE IF 10 * avg_utilization < 6 * Unit
        THEN 60 * Unit + (avg_utilization * 400) \div 6
        ELSE 100 * Unit - (10 * avg_utilization - 9 * Unit) * 20

_calculate_carrier_performance_score(carrier_performance) ==
    Min(100 * Unit, Max(0, carrier_performance * Unit))

_calculate_cost_efficiency_score_unclamped(distance_miles, carrier_performance) ==
    Max(0, (100 - distance_miles) * Unit) + (carrier_performance * Unit * 3) \div 10

\* the distance term without its floor at 0
_calculate_cost_efficiency_score_unfloored(distance_miles, carrier_performance) ==
    Min(100 * Unit, (100 - distance_miles) * Unit + (carrier_performance * Unit * 3) \div 10)

_calculate_cost_efficiency_score(distance_miles, carrier_performance) ==
    LET distance_efficiency == Max(0, (100 - distance_miles) * Unit)
        reliability_bonus == (carrier_performance * Unit * 3) \div 10
    IN  Min(100 * Unit, distance_efficiency + reliability_bonus)

\* hours are in tenths: 50 mph is 5 miles per tenth, 2.0 hours of service time are 20
_calculate_timeline_feasibility_score(hos_remaining, distance_miles) ==
    LET hos == COALESCE(hos_remaining, 110)
        estimated_total_time == distance_miles \div 5 + 20
    IN  IF estimated_total_time > hos THEN 0
        ELSE IF 10 * estimated_total_time <= 8 * hos THEN 100 * Unit
        ELSE (100 * Unit * (hos - estimated_total_time)) \div hos

\* the weights 0.25, 0.20, 0.20, 0.20, 0.15 in hundredths
composite_score_equal_weights(proximity_score, vehicle_score, carrier_score, cost_score, timeline_score) ==
    20 * proximity_score + 20 * vehicle_score + 20 * carrier_score + 20 * cost_score
        + 20 * timeline_score

composite_score(proximity_score, vehicle_score, carrier_score, cost_score, timeline_score) ==
    25 * proximity_score + 20 * vehicle_score + 20 * carrier_score + 20 * cost_score
        + 15 * timeline_score

\* the RouteCandidate built for one candidate (lines 248-295)
RouteCandidate(candidate, load, max_distance) ==
    LET proximity_score == _calculate_proximity_score(candidate.distance_miles, max_distance)
        vehicle_score == _calculate_vehicle_suitability_score(candidate, load)
        carrier_score == _calculate_carrier_performance_score(candidate.carrier_performance)
        cost_score ==
            _calculate_cost_efficiency_score(candidate.distance_miles, candidate.carrier_performance)
        timeline_score ==
            _calculate_timeline_feasibility_score(candidate.hos_remaining, candidate.distance_miles)
    IN  [driver_id |-> candidate.driver_id,
         vehicle_id |-> candidate.vehicle_id,
         load_ids |-> load.load_id,
         total_distance |-> candidate.distance_miles,
         optimization_score |->
             composite_score(proximity_score, vehicle_score, carrier_score, cost_score, timeline_score),
         driver_proximity_score |-> proximity_score,
         vehicle_suitability_score |-> vehicle_score,
         carrier_performance_score |-> carrier_score,
         cost_efficiency_score |-> cost_score,
         timeline_feasibility_score |-> timeline_score]

Raised(error) == [raised |-> error, value |-> <<>>]

Returns(value) == [raised |-> None, value |-> value]

\* load['load_id'] raises KeyError in the first iteration when the load dictionary has no
\* such key; scored_candidates[0] in the log line raises IndexError on an empty list;
\* list.sort(key=..., reverse=True) is stable: equal scores keep their order
_score_route_candidates(cands, load, max_distance) ==
    IF cands # <<>> /\ load.load_id = Null THEN Raised("KeyError")
    ELSE IF cands = <<>> THEN Raised("IndexError")
    ELSE LET built == [i \in DOMAIN cands |-> RouteCandidate(cands[i], load, max_distance)]
         IN  Returns(SortedBy(built, [i \in DOMAIN built |-> 0 - built[i].optimization_score]))

\* the load lookup of optimize_load_assignment (lines 64-83): the parameters are passed
\* as one positional dictionary to execute_query(self, query, **params), which takes
\* keyword parameters only, so the call raises TypeError before any query runs
load_lookup(load) == Raised("TypeError")

\* load_results[0], the row the load query returns for a load of the graph: its RETURN
\* clause (lines 66-73) has neither load_id nor volume_cubic_feet
load_data(load) ==
    [load_id |-> Null, in_graph |-> load.in_graph, weight_lbs |-> load.weight_lbs,
     volume_cubic_feet |-> Null, max_driver_distance_miles |-> load.max_driver_distance_miles]

\* the answer of the except clause (lines 149-156); did lists the steps that were begun
Failure(error, did) ==
    [success |-> FALSE, error |-> error, keys |-> {"success", "error", "fallback_available"},
     did |-> did, selected_driver_id |-> 0, alternatives_considered |-> 0]

\* the answer for empty load_results (lines 76-80): it has no fallback_available
NotFound(did) ==
    [success |-> FALSE, error |-> "not found", keys |-> {"success", "error"},
     did |-> did, selected_driver_id |-> 0, alternatives_considered |-> 0]

Success(best_candidate, considered, did) ==
    [success |-> TRUE, error |-> None,
     keys |-> {"success", "optimization_method", "selected_driver_id", "selected_vehicle_id",
               "optimization_score", "route_details", "optimization_factors",
               "alternatives_considered", "constraints_applied"},
     did |-> did, selected_driver_id |-> best_candidate.driver_id,
     alternatives_considered |-> considered]

optimize_load_assignment(f, load, max_distance) ==
    LET looked == load_lookup(load)
    IN  IF looked.raised # None THEN Failure(looked.raised, <<"lookup">>)
        ELSE IF looked.value = <<>> THEN NotFound(<<"lookup">>)
        ELSE LET cands == _find_optimization_candidates(f, load_data(load), max_distance)
                 ranked == _score_route_candidates(cands, load_data(load), max_distance)
             IN  IF cands = <<>> THEN Failure("ValueError", <<"lookup", "search">>)
                 ELSE IF ranked.raised # None
                 THEN Failure(ranked.raised, <<"lookup", "search", "scoring">>)
                 ELSE Success(ranked.value[1], Len(ranked.value),
                              <<"lookup", "search", "scoring", "geometry">>)

\* _score_route_candidates is called on the candidates found
ScoreCandidates ==
    /\ stage = "found"
    /\ LET ranked == _score_route_candidates(candidates, request, request.max_driver_distance_miles)
       IN  /\ scored' = ranked.value
           /\ stage' = IF ranked.raised = None THEN "scored" ELSE "raised"
    /\ UNCHANGED <<fleet, request, candidates, response>>
    /\ UNCHANGED graphVars
    /\ UNCHANGED dispatchVars
    /\ UNCHANGED routeVars
    /\ UNCHANGED group

\* optimize_load_assignment is called for the request
OptimizeLoadAssignment ==
    /\ stage = "requested"
    /\ response' = optimize_load_assignment(fleet, request, request.max_driver_distance_miles)
    /\ stage' = "answered"
    /\ UNCHANGED <<fleet, request, candidates, scored>>
    /\ UNCHANGED graphVars
    /\ UNCHANGED dispatchVars
    /\ UNCHANGED routeVars
    /\ UNCHANGED group

NextOptimize ==
    \/ RequestOptimization
    \/ FindCandidates
    \/ ScoreCandidates
    \/ OptimizeLoadAssignment

SpecOptimize == Init /\ [][NextOptimize]_vars

\* ------------------------------------------------------------------ claims: CandidateFinder

\* the paths of the fleet that qualify for the request
Qualifying ==
    { i \in DOMAIN fleet :
        /\ fleet[i].path.driver_status = "AVAILABLE"
        /\ fleet[i].path.vehicle_status = "AVAILABLE"
        /\ fleet[i].path.located
        /\ fleet[i].path.distance_miles <= request.max_driver_distance_miles
        /\ fleet[i].path.capacity_weight >= request.weight_lbs
        /\ fleet[i].path.capacity_volume >= COALESCE(request.volume_cubic_feet, 0) }

QualifyingIds == { fleet[i].driver_id : i \in Qualifying }

FoundIds == { candidates[i].driver_id : i \in DOMAIN candidates }

\* C17: the finder returns, each once, tuples whose driver and vehicle are both AVAILABLE,
\* whose driver is within max_distance_miles (inclusive) of the pickup and whose vehicle
\* weight and volume capacities are at least the required amounts: all of them when no
\* more than the result cap qualify, and as many as the cap otherwise.
C17_FinderReturnsQualifying ==
    stage = "found" =>
        /\ FoundIds \subseteq QualifyingIds
        /\ Len(candidates) = Cardinality(FoundIds)
        /\ Len(candidates) = Min(Cardinality(Qualifying), ResultCap)
        /\ \A i \in DOMAIN candidates :
            /\ candidates[i].vehicle_id = candidates[i].driver_id
            /\ candidates[i].carrier_id = candidates[i].driver_id

\* capacities 20000, 35000 and 50000 are in the fleet, 30000 lbs are required and only
\* 35000 and 50000 are returned, one of them at 60 miles with 75 miles allowed
C17_Witness ==
    /\ stage = "found"
    /\ request.max_driver_distance_miles = 75
    /\ request.weight_lbs = 30000
    /\ {20000, 35000, 50000} \subseteq { fleet[i].path.capacity_weight : i \in DOMAIN fleet }
    /\ { candidates[i].vehicle_capacity_weight : i \in DOMAIN candidates } = {35000, 50000}
    /\ \E i \in DOMAIN candidates : candidates[i].distance_miles = 60
    /\ \E i \in DOMAIN fleet : fleet[i].path.vehicle_status # "AVAILABLE"
    /\ Cardinality(Qualifying) <= ResultCap

\* C18: the finder's result is in ascending order of distance from the pickup and holds at
\* most 10 tuples; when more than 10 tuples qualify it holds 10, and no qualifying tuple
\* left out is nearer than one that is returned.
C18_NearestFirstAtMostTen ==
    stage = "found" =>
        /\ \A i, j \in DOMAIN candidates :
            i < j => candidates[i].distance_miles <= candidates[j].distance_miles
        /\ Len(candidates) <= 10
        /\ Cardinality(Qualifying) > 10 =>
            /\ Len(candidates) = 10
            /\ \A q \in Qualifying : fleet[q].driver_id \notin FoundIds =>
                \A i \in DOMAIN candidates :
                    candidates[i].distance_miles <= fleet[q].path.distance_miles

\* more than 10 tuples qualify, at several distances, and a higher rated driver farther
\* away comes after a nearer one
C18_Witness ==
    /\ stage = "found"
    /\ Cardinality(Qualifying) > 10
    /\ Len(candidates) = 10
    /\ candidates[1].distance_miles < candidates[10].distance_miles
    /\ \E i, j \in DOMAIN candidates :
        i < j /\ candidates[i].driver_rating < candidates[j].driver_rating
    /\ \E q \in Qualifying : fleet[q].driver_id \notin FoundIds

\* ------------------------------------------------------------------ claims: ScoringEngine

\* position in candidates of the tuple a scored candidate was built from
Origin(sc) == CHOOSE i \in DOMAIN candidates : candidates[i].driver_id = sc.driver_id

\* the scored list holds every candidate once, in descending order of composite score,
\* candidates of equal score in the order the finder returned them
ScoredSortedStable ==
    /\ Len(scored) = Len(candidates)
    /\ { scored[i].driver_id : i \in DOMAIN scored } = FoundIds
    /\ \A i, j \in DOMAIN scored : i < j =>
        /\ scored[i].optimization_score >= scored[j].optimization_score
        /\ scored[i].optimization_score = scored[j].optimization_score
            => Origin(scored[i]) < Origin(scored[j])

\* the composite score the scoring gives a tuple the finder returned
CompositeOf(row) ==
    RouteCandidate(row, request, request.max_driver_distance_miles).optimization_score

\* C19: the scoring returns the candidates sorted by descending composite score, equal
\* scores in their original ascending-distance order, and optimize_load_assignment selects
\* the first of them: whenever some tuple qualifies the answer is a success naming a
\* tuple the finder returns, of maximum composite score among those, and no farther away
\* than any other of that score.
C19_BestCandidateSelected ==
    /\ stage = "scored" => ScoredSortedStable
    /\ (stage = "answered" /\ request.in_graph /\ Qualifying # {}) =>
        LET found == _find_optimization_candidates(fleet, request, request.max_driver_distance_miles)
            composite == [i \in DOMAIN found |-> CompositeOf(found[i])]
        IN  /\ response.success
            /\ \E i \in DOMAIN found :
                /\ response.selected_driver_id = found[i].driver_id
                /\ \A j \in DOMAIN found :
                    /\ composite[j] <= composite[i]
                    /\ composite[j] = composite[i]
                        => found[i].distance_miles <= found[j].distance_miles

\* C20: every scored candidate's composite score is 0.25 proximity + 0.20 vehicle +
\* 0.20 carrier + 0.20 cost + 0.15 timeline of its own sub-scores, the weights sum to 1.0,
\* and sub-scores (80, 100, 90, 70, 100) give 87.0.
C20_CompositeIsWeightedSum ==
    /\ 25 + 20 + 20 + 20 + 15 = 100
    /\ composite_score(80 * Unit, 100 * Unit, 90 * Unit, 70 * Unit, 100 * Unit) = 87 * 100 * Unit
    /\ stage = "scored" =>
        \A i \in DOMAIN scored :
            scored[i].optimization_score =
                25 * scored[i].driver_proximity_score
                + 20 * scored[i].vehicle_suitability_score
                + 20 * scored[i].carrier_performance_score
                + 20 * scored[i].cost_efficiency_score
                + 15 * scored[i].timeline_feasibility_score

\* a scored candidate whose five sub-scores all differ
C20_Witness ==
    /\ stage = "scored"
    /\ \E i \in DOMAIN scored :
        Cardinality({ scored[i].driver_proximity_score, scored[i].vehicle_suitability_score,
                      scored[i].carrier_performance_score, scored[i].cost_efficiency_score,
                      scored[i].timeline_feasibility_score }) = 5

\* ------------------------------------------------------------------ scoring on arbitrary inputs
\* _score_route_candidates applied to one candidate and one load whose numbers are any
\* non-negative values, the extremes included, not only what the finder returns

Distances == {0, 15, 50, 60, 1000}

WeightCapacities == {0, 30000, 50000, 1050000}

VolumeCapacities == {0, 1500, 2500}

Performances == {0, 50, 100, 150, 1000}

HoursRemaining == {Null, <<0>>, <<20>>, <<25>>, <<1000>>}

AnyCandidates ==
    [driver_id : {1}, vehicle_id : {1}, carrier_id : {1}, hos_remaining : HoursRemaining,
     vehicle_capacity_weight : WeightCapacities, vehicle_capacity_volume : VolumeCapacities,
     distance_miles : Distances, driver_rating : {4}, carrier_performance : Performances]

AnyLoads ==
    [load_id : {<<"L1">>}, in_graph : {TRUE}, weight_lbs : {0, 30000},
     volume_cubic_feet : {Null, <<0>>, <<1500>>},
     max_driver_distance_miles : {1, 50, 75}]

InitScores ==
    /\ InitGraph
    /\ InitDispatch
    /\ InitRoutes
    /\ gmaps = None
    /\ fleet = <<>>
    /\ \E c \in AnyCandidates : candidates = <<c>>
    /\ request \in AnyLoads
    /\ scored = <<>>
    /\ response = NoResponse
    /\ stage = "found"

SpecScores == InitScores /\ [][ScoreCandidates]_vars

\* C21: for non-negative distance, capacities, requirements, hours remaining and carrier
\* performance each of the five sub-scores of a scored candidate lies between 0 and 100
\* points, and so does its composite score.
C21_ScoresInRange ==
    stage = "scored" =>
        \A i \in DOMAIN scored :
            /\ scored[i].driver_proximity_score \in 0..(100 * Unit)
            /\ scored[i].vehicle_suitability_score \in 0..(100 * Unit)
            /\ scored[i].carrier_performance_score \in 0..(100 * Unit)
            /\ scored[i].cost_efficiency_score \in 0..(100 * Unit)
            /\ scored[i].timeline_feasibility_score \in 0..(100 * Unit)
            /\ scored[i].optimization_score \in 0..(100 * 100 * Unit)

\* a carrier performance of 1000 at distance 0 with a fully used vehicle and no hours left
C21_Witness ==
    /\ stage = "scored"
    /\ candidates[1].carrier_performance = 1000
    /\ candidates[1].distance_miles = 0
    /\ candidates[1].hos_remaining = <<0>>
    /\ scored[1].cost_efficiency_score = 100 * Unit
    /\ scored[1].vehicle_suitability_score = 80 * Unit
    /\ scored[1].timeline_feasibility_score = 0

\* ------------------------------------------------------------------ RouteOptimizationService
\* services/route_optimization.py.  Coordinates are whole degrees, <<latitude, longitude>>.
\* Angles are in 1/10^7 radian and distances in 1/10^7 mile until they are rounded;
\* rounded miles and scores are in hundredths, durations in whole minutes.

MaxCalls == 2       \* optimization calls in one run

\* pickup and delivery of a load: both on the equator or both on one meridian, where the
\* haversine formula gives exactly the difference of the angles
Trips ==
    { <<<<0, 0>>, <<0, 1>>>>, <<<<0, 0>>, <<0, 0>>>>, <<<<2, 0>>, <<0, 0>>>>,
      <<<<0, 3>>, <<0, 0>>>> }

\* math.radians: pi / 180 = 0.0174533
radians(degrees) == degrees * 174533

Abs(x) == IF x < 0 THEN 0 - x ELSE x

\* c of the haversine formula (lines 131-139) for the pairs of Trips
CentralAngle(pickup, delivery) ==
    Abs(radians(delivery[1]) - radians(pickup[1])) + Abs(radians(delivery[2]) - radians(pickup[2]))

\* round(x) of a value given in 1/unit
Round(x, unit) == (x + unit \div 2) \div unit

\* round(distance_miles * 2), written so that it stays within 32 bits
EstimatedMinutes_with_traffic(distance) == Round(distance, 4000000)

EstimatedMinutes(distance) == Round(distance, 5000000)

\* round(distance_miles * 2.5)
EstimatedTrafficMinutes(distance) == Round(distance, 4000000)

LineString(pickup, delivery) ==
    <<"LINESTRING", <<pickup[2], pickup[1]>>, <<delivery[2], delivery[1]>>>>

_calculate_straight_line_route(pickup, delivery) ==
    LET distance_miles == 3959 * CentralAngle(pickup, delivery)
    IN  [raised |-> None,
         distance_miles |-> Round(distance_miles, 100000),
         duration_minutes |-> EstimatedMinutes(distance_miles),
         duration_in_traffic_minutes |-> EstimatedTrafficMinutes(distance_miles),
         route_geometry |-> LineString(pickup, delivery),
         encoded_polyline |-> None,
         steps |-> <<>>,
         optimization_score |-> 5000,
         traffic_considered |-> FALSE]

\* what self.gmaps.directions does: it raises, returns no route, returns a route that
\* lacks a key, or returns a route with its leg (meters, seconds, seconds in traffic)
Directions ==
    [kind : {"raises", "empty", "malformed"}, meters : {0}, seconds : {0}, in_traffic : {Null}]
    \cup [kind : {"route"}, meters : {1000, 3000}, seconds : {620}, in_traffic : {Null, <<700>>, <<1000>>}]

\* _calculate_optimization_score (lines 173-185), in hundredths
_calculate_optimization_score(leg) ==
    LET normal_duration == leg.seconds
        traffic_duration == COALESCE(leg.in_traffic, normal_duration)
        base_score ==
            IF traffic_duration > normal_duration
            THEN 7000 - Min(3000, ((traffic_duration - normal_duration) * 10000) \div normal_duration)
            ELSE 7000
    IN  Max(1000, Min(10000, base_score))

\* the dictionary built from a route (lines 98-120); the geometry is the decoded polyline
RouteFromDirections(leg, pickup, delivery) ==
    [raised |-> None,
     distance_miles |-> Round(leg.meters * 621371, 10000000),
     duration_minutes |-> Round(leg.seconds, 60),
     duration_in_traffic_minutes |-> Round(COALESCE(leg.in_traffic, leg.seconds), 60),
     route_geometry |-> <<"LINESTRING", <<pickup[2], pickup[1]>>, <<9, 9>>, <<delivery[2], delivery[1]>>>>,
     encoded_polyline |-> "polyline",
     steps |-> <<"step">>,
     optimization_score |-> _calculate_optimization_score(leg),
     traffic_considered |-> TRUE]

\* the except clause of _calculate_google_route (lines 122-125)
GoogleFailed_raises(pickup, delivery) ==
    [_calculate_straight_line_route(pickup, delivery) EXCEPT !.raised = "Exception"]

GoogleFailed(pickup, delivery) == _calculate_straight_line_route(pickup, delivery)

\* with self.gmaps = None the call self.gmaps.directions raises AttributeError inside
\* the try block
_calculate_google_route(client, directions, pickup, delivery) ==
    IF client = None \/ directions.kind # "route"
    THEN GoogleFailed(pickup, delivery)
    ELSE RouteFromDirections(directions, pickup, delivery)

\* lines 49-53 of optimize_route
RouteData(client, directions, pickup, delivery) ==
    IF client # None
    THEN _calculate_google_route(client, directions, pickup, delivery)
    ELSE _calculate_straight_line_route(pickup, delivery)

\* building topic_mapping reads EventType.CARRIER_PERFORMANCE_UPDATED and
\* EventType.CARRIER_CAPACITY_CHANGED, which EventType does not define: AttributeError
get_topic_name(event_type) == Raised("AttributeError")

\* TMSEventProducer.send_event: False when the producer is not started and when anything
\* raises inside its try block; the bus accepts the event otherwise
send_event(started, ev, accepted) ==
    IF ~started THEN [sent |-> FALSE, bus |-> accepted]
    ELSE IF get_topic_name(ev.event_type).raised # None THEN [sent |-> FALSE, bus |-> accepted]
    ELSE [sent |-> TRUE, bus |-> Append(accepted, ev)]

RouteOptimizedEvent(route_id, load_id) ==
    [event_type |-> "ROUTE_OPTIMIZED", route_id |-> route_id, load_ids |-> <<load_id>>]

\* the row INSERT INTO routes ... RETURNING id adds
RouteRow(route_id, load_id, route_data) ==
    [id |-> route_id, load_id |-> load_id, status |-> "PLANNED",
     planned_distance_miles |-> route_data.distance_miles,
     planned_duration_minutes |-> route_data.duration_minutes]

\* the answer of the except clause of optimize_route (lines 74-79)
Failed(error, did) ==
    [NoAnswer EXCEPT !.error = error, !.keys = {"success", "error"}, !.did = did]

\* an exception that leaves optimize_route
Propagated(error, did) ==
    [NoAnswer EXCEPT !.raised = error, !.did = did]

Succeeded(route_id, did) ==
    [NoAnswer EXCEPT !.success = TRUE, !.route_id = route_id, !.did = did,
                      !.keys = {"success", "route_id", "distance_miles", "duration_minutes",
                                "optimization_score", "route_geometry"}]

\* what a call meets: the load row of the relational store (Null: no such load), whether
\* the store answers (it may fail from the start or at the INSERT), whether the bus can be
\* reached, and what the mapping service does
Environments ==
    [load_id : {"L1", "L2"}, load_result : {Null} \cup { <<t>> : t \in Trips },
     store : {"up", "down", "down_at_insert"}, bus_up : BOOLEAN, directions : Directions]

\* get_db_manager: the manager is kept even when initialize() raised
ManagerAfter(manager, env) ==
    IF manager # None THEN manager
    ELSE IF env.store = "down" THEN "uninitialized" ELSE "initialized"

\* get_producer: the producer is kept even when start() raised
ProducerAfter(producer, env) ==
    IF producer # None THEN producer
    ELSE IF env.bus_up THEN "started" ELSE "unstarted"

\* optimize_route: the answer and the stores after the call
optimize_route(manager, producer, client, rows, accepted, env) ==
    LET pickup == env.load_result[1][1]
        delivery == env.load_result[1][2]
        route_data == RouteData(client, env.directions, pickup, delivery)
        route_id == Len(rows) + 1
        saved == Append(rows, RouteRow(route_id, env.load_id, route_data))
        sent == send_event(ProducerAfter(producer, env) = "started",
                           RouteOptimizedEvent(route_id, env.load_id), accepted)
        untouched == [routes |-> rows, bus |-> accepted, _producer |-> producer]
    IN  IF manager = None /\ env.store = "down"
        THEN [answer |-> Propagated("ConnectionError", <<"repository">>)] @@ untouched
        ELSE IF ManagerAfter(manager, env) = "uninitialized" \/ env.store = "down"
        THEN [answer |-> Failed("store error", <<"repository", "load">>)] @@ untouched
        ELSE IF env.load_result = Null
        THEN [answer |-> Failed("ValueError", <<"repository", "load">>)] @@ untouched
        ELSE IF route_data.raised # None
        THEN [answer |-> [Failed(route_data.raised, <<"repository", "load", "geometry">>)
                            EXCEPT !.route_data = <<route_data>>]] @@ untouched
        ELSE IF env.store = "down_at_insert"
        THEN [answer |-> [Failed("store error", <<"repository", "load", "geometry", "save">>)
                            EXCEPT !.route_data = <<route_data>>]] @@ untouched
        ELSE IF producer = None /\ ~env.bus_up
        THEN [answer |-> [Failed("bus error",
                                 <<"repository", "load", "geometry", "save", "producer">>)
                            EXCEPT !.route_data = <<route_data>>],
              routes |-> saved, bus |-> accepted, _producer |-> ProducerAfter(producer, env)]
        ELSE [answer |-> [Succeeded(route_id, <<"repository", "load", "geometry", "save",
                                                "producer", "publish">>)
                            EXCEPT !.route_data = <<route_data>>],
              routes |-> saved, bus |-> sent.bus, _producer |-> ProducerAfter(producer, env)]

\* one call of optimize_route
OptimizeRoute ==
    /\ Len(calls) < MaxCalls
    /\ calls' = Append(calls, "optimize_route")
    /\ \E env \in Environments :
        \* without a client no request is made, so what the mapping service would
        \* have answered is left at one value
        /\ gmaps = None => env.directions.kind = "raises"
        /\ LET after == optimize_route(_db_manager, _producer, gmaps, routes, bus, env)
           IN  /\ _db_manager' = ManagerAfter(_db_manager, env)
               /\ answer' = [after.answer EXCEPT !.load_id = env.load_id,
                                 !.given = <<[load_result |-> env.load_result,
                                              directions |-> env.directions]>>]
               /\ routes' = after.routes
               /\ bus' = after.bus
               /\ _producer' = after._producer
    /\ UNCHANGED gmaps
    /\ UNCHANGED graphVars
    /\ UNCHANGED dispatchVars
    /\ UNCHANGED optVars
    /\ UNCHANGED group

\* what a step of optimize_load_assignment writes
AdvancedWrites_saving(step) == IF step = "geometry" \/ step = "lookup" THEN {"routes", "bus"} ELSE {}

\* what a step of optimize_load_assignment writes: both graph queries are MATCH ... RETURN,
\* scoring is arithmetic and the geometry call only asks the mapping service
AdvancedWrites(step) == {}

\* one call of optimize_load_assignment, on a graph with at most one path
AdvancedCall ==
    /\ Len(calls) < MaxCalls
    /\ calls' = Append(calls, "optimize_load_assignment")
    /\ \E f \in { x \in Fleets : Len(x) <= 1 }, r \in Requests :
        LET answered == optimize_load_assignment(f, r, r.max_driver_distance_miles)
            written == UNION { AdvancedWrites(answered.did[i]) : i \in 1..Len(answered.did) }
        IN  /\ fleet' = f
            /\ request' = r
            /\ response' = answered
            /\ routes' = IF "routes" \in written
                         THEN Append(routes, [id |-> Len(routes) + 1, load_id |-> "L1",
                                              status |-> "PLANNED", planned_distance_miles |-> 0,
                                              planned_duration_minutes |-> 0])
                         ELSE routes
            /\ bus' = IF "bus" \in written
                      THEN Append(bus, RouteOptimizedEvent(Len(routes) + 1, "L1"))
                      ELSE bus
    /\ stage' = "answered"
    /\ UNCHANGED <<candidates, scored>>
    /\ UNCHANGED <<gmaps, _producer, _db_manager, answer>>
    /\ UNCHANGED graphVars
    /\ UNCHANGED dispatchVars
    /\ UNCHANGED group

NextRoutes ==
    \/ OptimizeRoute
    \/ AdvancedCall

\* the service is constructed with or without a mapping-service key
InitConfigured ==
    /\ InitGraph
    /\ InitDispatch
    /\ InitOptimize
    /\ InitRoutes
    /\ gmaps \in {None, "Client"}

SpecRoutes == InitConfigured /\ [][NextRoutes]_vars

\* ------------------------------------------------------------------ claims: OptimizationOrchestrator

\* C22: optimize_load_assignment for a load that has no Load node in the graph answers
\* with the not-found failure (success false) and begins no candidate search, scoring or
\* geometry computation.
C22_MissingLoadIsNotFound ==
    (stage = "answered" /\ ~request.in_graph) =>
        /\ ~response.success
        /\ response.error = "not found"
        /\ response.did = <<"lookup">>

PlannedRows(route_id, load_id) ==
    { i \in 1..Len(routes) : /\ routes[i].id = route_id
                             /\ routes[i].load_id = load_id
                             /\ routes[i].status = "PLANNED" }

\* the ROUTE_OPTIMIZED events on the bus that carry this route id
PublishedFor(route_id) ==
    { i \in 1..Len(bus) : /\ bus[i].event_type = "ROUTE_OPTIMIZED"
                          /\ bus[i].route_id = route_id }

\* C24: when optimize_route has answered success, the routes table holds exactly one
\* PLANNED row for that load with the returned id and the bus holds exactly one
\* ROUTE_OPTIMIZED event carrying that id.
C24_SuccessMeansSavedAndPublished ==
    answer.success =>
        /\ Cardinality(PlannedRows(answer.route_id, answer.load_id)) = 1
        /\ Cardinality(PublishedFor(answer.route_id)) = 1

\* the keys the spec promises in every failure result
FailureKeys == {"success", "error", "fallback_available"}

\* C25: optimize_route and optimize_load_assignment never raise to the caller; every
\* failure is a result with success = false that has the keys error and fallback_available.
C25_FailuresAreResults ==
    /\ answer.raised = None
    /\ (answer.did # <<>> /\ ~answer.success) => FailureKeys \subseteq answer.keys
    /\ (response.did # <<>> /\ ~response.success) => FailureKeys \subseteq response.keys

\* the first half of C25 alone: no exception leaves optimize_route
C25_NeverRaises == answer.raised = None

\* the second half of C25 for optimize_route alone
C25_FailureHasFallbackKey ==
    (answer.did # <<>> /\ ~answer.success /\ answer.raised = None)
        => FailureKeys \subseteq answer.keys

\* the answers of the mapping service that are not a usable route
Unusable == { d \in Directions : d.kind # "route" }

UsedFallback ==
    /\ answer.route_data # <<>>
    /\ gmaps = None \/ answer.given[1].directions \in Unusable

\* great-circle miles (in hundredths) and minutes for 0, 1, 2 and 3 degrees of arc along
\* the equator or a meridian on a sphere of radius 3959 miles:
\* 3959 * pi / 180 = 69.0976 miles for one degree
GreatCircle ==
    [degrees \in 0..3 |->
        CASE degrees = 0 -> [distance |-> 0,     duration |-> 0,   in_traffic |-> 0]
          [] degrees = 1 -> [distance |-> 6910,  duration |-> 138, in_traffic |-> 173]
          [] degrees = 2 -> [distance |-> 13820, duration |-> 276, in_traffic |-> 345]
          [] degrees = 3 -> [distance |-> 20729, duration |-> 415, in_traffic |-> 518]]

\* degrees of arc between the two ends of a trip that runs along the equator or a meridian
Arc(pickup, delivery) == Abs(delivery[1] - pickup[1]) + Abs(delivery[2] - pickup[2])

\* the general part of C27: what the straight-line route holds for a trip
FallbackShape(route_data, pickup, delivery) ==
    LET expected == GreatCircle[Arc(pickup, delivery)]
    IN  /\ route_data.distance_miles = expected.distance
        /\ route_data.duration_minutes = expected.duration
        /\ route_data.duration_in_traffic_minutes = expected.in_traffic
        \* 2 and 2.5 minutes per mile, up to the rounding of the distance and of the minutes
        /\ Abs(100 * route_data.duration_minutes - 2 * route_data.distance_miles) <= 51
        /\ Abs(200 * route_data.duration_in_traffic_minutes - 5 * route_data.distance_miles) <= 103
        /\ route_data.route_geometry =
               <<"LINESTRING", <<pickup[2], pickup[1]>>, <<delivery[2], delivery[1]>>>>
        /\ route_data.steps = <<>>
        /\ route_data.optimization_score = 5000
        /\ route_data.traffic_considered = FALSE

\* C27 as the spec states it: the straight-line route is the great-circle distance, 2 and
\* 2.5 minutes per mile, the two-point line, no steps, score 50.0 and no traffic; from
\* (0,0) to (0,1) it is about 69.17 miles (to within 0.05) and 138 minutes.
C27_FallbackAbout6917 ==
    UsedFallback =>
        LET pickup == answer.given[1].load_result[1][1]
            delivery == answer.given[1].load_result[1][2]
            route_data == answer.route_data[1]
        IN  /\ FallbackShape(route_data, pickup, delivery)
            /\ (pickup = <<0, 0>> /\ delivery = <<0, 1>>)
                    => /\ Abs(route_data.distance_miles - 6917) <= 5
                       /\ route_data.duration_minutes = 138

\* C27, amended: the same, except that from (0,0) to (0,1) the distance is about 69.10
\* miles (and the duration 138 minutes).
C27_FallbackAbout6910 ==
    UsedFallback =>
        LET pickup == answer.given[1].load_result[1][1]
            delivery == answer.given[1].load_result[1][2]
            route_data == answer.route_data[1]
        IN  /\ FallbackShape(route_data, pickup, delivery)
            /\ (pickup = <<0, 0>> /\ delivery = <<0, 1>>)
                    => /\ Abs(route_data.distance_miles - 6910) <= 5
                       /\ route_data.duration_minutes = 138

\* a call without a mapping-service client routed the load from (0,0) to (0,1)
C27_Witness ==
    /\ gmaps = None
    /\ answer.success
    /\ answer.given[1].load_result[1] = <<<<0, 0>>, <<0, 1>>>>
    /\ answer.route_data[1].distance_miles = 6910
    /\ routes[Len(routes)].planned_duration_minutes = 138

\* ------------------------------------------------------------------ claims: status events

\* the node of this label and id carries this status, set at the time of envelope e
HasStatus(label, id, status, e) ==
    \E n \in MatchNodes(graph, label, id) :
        /\ n.props.status = status
        /\ n.props.updated_at = isoformat(e.timestamp)

\* C28: once a VEHICLE_STATUS_CHANGED or DRIVER_STATUS_CHANGED envelope has been
\* processed, the Vehicle or Driver node it names has the status the envelope carries
\* as new_status and an updated_at equal to the envelope's timestamp.
C28_StatusEventSetsNewStatus ==
    /\ (/\ hist # <<>>
        /\ Last.event_type = "VEHICLE_STATUS_CHANGED"
        /\ Truthy(get(Last.data, "vehicle_id")) /\ Truthy(get(Last.data, "new_status")))
            => HasStatus("Vehicle", str(get(Last.data, "vehicle_id")), get(Last.data, "new_status"), Last)
    /\ (/\ hist # <<>>
        /\ Last.event_type = "DRIVER_STATUS_CHANGED"
        /\ Truthy(get(Last.data, "driver_id")) /\ Truthy(get(Last.data, "new_status")))
            => HasStatus("Driver", str(get(Last.data, "driver_id")), get(Last.data, "new_status"), Last)

\* C28 for a driver event that carries its status under both keys: holds, the Driver
\* node being created when missing
C28_DriverStatusUnderBothKeys ==
    (/\ hist # <<>>
     /\ Last.event_type = "DRIVER_STATUS_CHANGED"
     /\ Truthy(get(Last.data, "driver_id"))
     /\ Truthy(get(Last.data, "status")) /\ get(Last.data, "status") = get(Last.data, "new_status"))
        => HasStatus("Driver", str(get(Last.data, "driver_id")), get(Last.data, "new_status"), Last)

\* C28 for a driver event shaped as the schema declares it (new_status only)
C28_DriverStatusPerSchema ==
    (/\ hist # <<>>
     /\ Last.event_type = "DRIVER_STATUS_CHANGED"
     /\ Truthy(get(Last.data, "driver_id"))
     /\ get(Last.data, "status") = None /\ Truthy(get(Last.data, "new_status")))
        => HasStatus("Driver", str(get(Last.data, "driver_id")), get(Last.data, "new_status"), Last)

\* ------------------------------------------------------------------ claims: VEHICLE_ASSIGNED

\* the envelope processed last is a VEHICLE_ASSIGNED that names vehicle, carrier and driver
LastAssignsVehicle ==
    /\ hist # <<>>
    /\ Last.event_type = "VEHICLE_ASSIGNED"
    /\ Truthy(get(Last.data, "vehicle_id"))
    /\ Truthy(get(Last.data, "carrier_id"))
    /\ Truthy(get(Last.data, "driver_id"))

VehicleOf(e) == <<"Vehicle", str(get(e.data, "vehicle_id"))>>
CarrierOf(e) == <<"Carrier", str(get(e.data, "carrier_id"))>>
DriverOf(e) == <<"Driver", str(get(e.data, "driver_id"))>>

\* C29: once a VEHICLE_ASSIGNED envelope carrying vehicle_id, carrier_id and driver_id
\* has been processed, the Vehicle node exists, an OWNED_BY edge runs from that Vehicle
\* to that Carrier and a DRIVES edge runs from that Driver to that Vehicle.
C29_VehicleAssignedLinksAll ==
    LastAssignsVehicle =>
        /\ MatchNodes(graph, "Vehicle", VehicleOf(Last)[2]) # {}
        /\ MatchRels(graph, "OWNED_BY", VehicleOf(Last), CarrierOf(Last)) # {}
        /\ MatchRels(graph, "DRIVES", DriverOf(Last), VehicleOf(Last)) # {}

\* C29 without the OWNED_BY edge: the Vehicle node and the DRIVES edge are there
C29_VehicleAndDrivesOnly ==
    LastAssignsVehicle =>
        /\ MatchNodes(graph, "Vehicle", VehicleOf(Last)[2]) # {}
        /\ MatchRels(graph, "DRIVES", DriverOf(Last), VehicleOf(Last)) # {}

\* no run of the synchronizer puts a Carrier node or an OWNED_BY edge into the graph
C29_NoCarrierEver ==
    /\ \A n \in graph.nodes : n.label # "Carrier"
    /\ \A r \in graph.rels : r.type # "OWNED_BY"

\* ------------------------------------------------------------------ claims: outstanding loads

\* the vehicle of the path has a TRANSPORTS edge to a load neither delivered nor cancelled
Outstanding(p) ==
    \E i \in DOMAIN p.transports : p.transports[i] \notin {"DELIVERED", "CANCELLED"}

\* C30: a path whose vehicle is AVAILABLE but still has a TRANSPORTS edge to a load that
\* is neither delivered nor cancelled is returned by the finder, with its AVAILABLE
\* driver, when it meets the distance and capacity filters, as any other qualifying path
\* is: it is left out only when the result is full with rows that are no farther away.
C30_OutstandingLoadNotFiltered ==
    stage = "found" =>
        \A q \in Qualifying :
            Outstanding(fleet[q].path) =>
                \/ \E i \in DOMAIN candidates :
                        /\ candidates[i].driver_id = fleet[q].driver_id
                        /\ candidates[i].vehicle_id = fleet[q].vehicle_id
                \/ /\ Len(candidates) = ResultCap
                   /\ \A i \in DOMAIN candidates :
                        candidates[i].distance_miles <= fleet[q].path.distance_miles

\* a vehicle with an ASSIGNED load on a TRANSPORTS edge is returned, next to one whose
\* only load is delivered
C30_Witness ==
    /\ stage = "found"
    /\ \E q \in Qualifying :
        /\ fleet[q].path.transports = <<"ASSIGNED">>
        /\ fleet[q].path.vehicle_status = "AVAILABLE"
        /\ fleet[q].driver_id \in FoundIds
    /\ \E q \in Qualifying :
        /\ fleet[q].path.transports = <<"DELIVERED">>
        /\ fleet[q].driver_id \in FoundIds

\* ------------------------------------------------------------------ the consumer group across crashes

\* One partition of a subscribed topic and the group's consumer on it. Offsets count
\* from 1; committed is <<>> until the first commit and <<o>> when the group resumes at
\* offset o; inflight is the offset whose handlers are running (0: none); done holds the
\* offsets whose handlers have finished; since is the first offset published after the
\* group first joined.
MaxPublished == 3   \* envelopes published to the partition
MaxCrashes == 2     \* crashes of the consuming process

OtherVars ==
    <<graph, hist, steps, result, _running, consumer, _handlers, starting, opened,
      startError, pc, absorbed, event, handlers, idx, invoked, pulled, fleet, request,
      candidates, scored, response, stage, routes, bus, gmaps, _producer, _db_manager,
      answer, calls>>

\* a reset to the first offset of the group's life
ResetTo_earliest(g) == IF g.since = 0 THEN g.log + 1 ELSE g.since

\* auto_offset_reset='latest': without a committed offset the consumer starts after the
\* last envelope of the log
ResetTo(g) == g.log + 1

\* a commit that stops before an envelope still being handled
Committable_handled_only(g) == IF g.inflight # 0 THEN g.inflight ELSE g.position

\* enable_auto_commit=True, auto_commit_interval_ms=1000: the offset committed on the
\* interval is the position, which is past every envelope the iteration has handed out
Committable(g) == g.position

\* an envelope is published to the partition
Publish ==
    /\ group.log < MaxPublished
    /\ group' = [group EXCEPT !.log = @ + 1]
    /\ UNCHANGED OtherVars

\* start(): the consumer joins the group and resumes at the committed offset
GroupStart ==
    /\ ~group.alive
    /\ group' = [group EXCEPT !.alive = TRUE,
                              !.since = IF @ = 0 THEN group.log + 1 ELSE @,
                              !.position = IF group.committed = <<>> THEN ResetTo(group)
                                           ELSE group.committed[1]]
    /\ UNCHANGED OtherVars

\* async for message in self.consumer: the next envelope is handed to the loop, which
\* parses it and awaits its handlers
Fetch ==
    /\ group.alive
    /\ group.inflight = 0
    /\ group.position <= group.log
    /\ group' = [group EXCEPT !.inflight = group.position, !.position = @ + 1]
    /\ UNCHANGED OtherVars

\* _handle_event returns: every handler of the envelope has been awaited
Handled ==
    /\ group.inflight # 0
    /\ group' = [group EXCEPT !.done = @ \cup {group.inflight}, !.inflight = 0]
    /\ UNCHANGED OtherVars

\* the commit interval elapses while the loop or a handler is suspended in an await
AutoCommit ==
    /\ group.alive
    /\ group.committed # <<Committable(group)>>
    /\ group' = [group EXCEPT !.committed = <<Committable(group)>>]
    /\ UNCHANGED OtherVars

\* the process dies: what it was handling is abandoned
Crash ==
    /\ group.alive
    /\ group.crashes < MaxCrashes
    /\ group' = [group EXCEPT !.alive = FALSE, !.inflight = 0, !.crashes = @ + 1]
    /\ UNCHANGED OtherVars

NextCrash ==
    \/ Publish
    \/ GroupStart
    \/ Fetch
    \/ Handled
    \/ AutoCommit
    \/ Crash

SpecCrash == Init /\ [][NextCrash]_vars

\* ------------------------------------------------------------------ claims: delivery across crashes

\* the envelope at offset o has not been handled and will not be handed out again
Lost(o) ==
    /\ o \notin group.done
    /\ o # group.inflight
    /\ \/ group.alive /\ group.position > o
       \/ ~group.alive /\ group.committed # <<>> /\ group.committed[1] > o

\* C32: no envelope published since the group joined is lost to a crash: the offset of
\* an envelope whose handlers have not finished is not committed, so after a crash
\* and restart it is delivered again.
C32_NoEnvelopeLost ==
    /\ group.inflight # 0 => (group.committed = <<>> \/ group.committed[1] <= group.inflight)
    /\ \A o \in 1..group.log : (group.since # 0 /\ o >= group.since) => ~Lost(o)

\* every reachable state of the group is well formed
GroupOK ==
    /\ group.done \subseteq 1..group.log
    /\ group.inflight \in 0..group.log
    /\ group.position <= group.log + 1

\* ------------------------------------------------------------------ claims: cost efficiency

C33_AssignedBeforeCreated ==
    (/\ Len(hist) = 2
     /\ FullAssignment(hist[1])
     /\ hist[2].event_type = "LOAD_CREATED"
     /\ LoadIdOf(hist[2]) = hist[1].data.load_id)
    => OneEdgeEach(graph, hist[1])

\* the other order: LOAD_CREATED, then LOAD_ASSIGNED, leaves both edges
C33_CreatedBeforeAssigned ==
    (/\ Len(hist) = 2
     /\ hist[1].event_type = "LOAD_CREATED"
     /\ FullAssignment(hist[2])
     /\ LoadIdOf(hist[1]) = hist[2].data.load_id)
    => OneEdgeEach(graph, hist[2])

\* ------------------------------------------------------------------ reassignment

\* envelopes about one load and two drivers and two vehicles: the load is created,
\* assigned (LOAD_ASSIGNED or DRIVER_ASSIGNED) and cancelled
ReassignEnvelopes ==
    { Event("LOAD_CREATED", "T1",
            [id |-> "L1", load_id |-> Absent, customer_id |-> "C1", pickup_location |-> "A",
             delivery_location |-> "B", weight |-> "10t", status |-> Absent]),
      Event("LOAD_CANCELLED", "T1", [load_id |-> "L1"]) }
    \cup { Event("LOAD_ASSIGNED", "T1", [load_id |-> "L1", driver_id |-> d, vehicle_id |-> v]) :
            d \in {"D1", "D2"}, v \in {"V1", "V2"} }
    \cup { Event("DRIVER_ASSIGNED", "T1", [driver_id |-> d, load_id |-> "L1", vehicle_id |-> "V1"]) :
            d \in {"D1", "D2"} }

\* one of these envelopes is handed to GraphSyncService.handle_event
ProcessAssignment ==
    /\ steps < MaxEvents
    /\ \E e \in ReassignEnvelopes :
        /\ graph' = handle_event(graph, e)
        /\ hist' = Remember(hist, e)
    /\ steps' = steps + 1
    /\ result' = "processed"
    /\ UNCHANGED dispatchVars
    /\ UNCHANGED optVars
    /\ UNCHANGED routeVars
    /\ UNCHANGED group

SpecReassign == Init /\ [][ProcessAssignment]_vars

\* the edges of one type that end at the load
EdgesToLoad(g, type, l) == { r \in g.rels : r.type = type /\ r.to = <<"Load", l>> }

\* C34: in every reachable graph a Load has at most one ASSIGNED_TO edge and at most one
\* TRANSPORTS edge: assigning an assigned load to another driver or vehicle replaces
\* the earlier assignment.
C34_AtMostOneAssignment ==
    /\ Cardinality(EdgesToLoad(graph, "ASSIGNED_TO", "L1")) <= 1
    /\ Cardinality(EdgesToLoad(graph, "TRANSPORTS", "L1")) <= 1

\* ------------------------------------------------------------------ claims: terminal load status

LoadStatus(g, l) ==
    IF MatchNodes(g, "Load", l) = {} THEN None ELSE TheNode(g, "Load", l).props.status

TerminalStatus == {"DELIVERED", "CANCELLED"}

C35_TerminalUnlessCreated ==
    [][ \A l \in LoadIds :
          (LoadStatus(graph, l) \in TerminalStatus /\ Last'.event_type # "LOAD_CREATED")
              => LoadStatus(graph', l) \in TerminalStatus
      ]_graphVars

\* ------------------------------------------------------------------ claims: finder on the synchronized graph

\* n.k in Cypher: null for a property no SET clause has ever written on the node
Property(n, k) == IF k \in DOMAIN n.props THEN n.props[k] ELSE None

\* MATCH (d:Driver)-[:DRIVES]->(v:Vehicle)-[:OWNED_BY]->(c:Carrier) and the conditions of
\* the WHERE clauses that do not depend on the request: both statuses AVAILABLE, the
\* driver's current position not null, the vehicle's capacities not null (a comparison
\* with null is not true)
FinderRows(g) ==
    { row \in DriverIds \X VehicleIds \X CarrierIds :
        /\ MatchRels(g, "DRIVES", <<"Driver", row[1]>>, <<"Vehicle", row[2]>>) # {}
        /\ MatchRels(g, "OWNED_BY", <<"Vehicle", row[2]>>, <<"Carrier", row[3]>>) # {}
        /\ Property(TheNode(g, "Driver", row[1]), "status") = "AVAILABLE"
        /\ Property(TheNode(g, "Vehicle", row[2]), "status") = "AVAILABLE"
        /\ Property(TheNode(g, "Driver", row[1]), "current_latitude") # None
        /\ Property(TheNode(g, "Driver", row[1]), "current_longitude") # None
        /\ Property(TheNode(g, "Vehicle", row[2]), "capacity_weight") # None
        /\ Property(TheNode(g, "Vehicle", row[2]), "capacity_volume") # None }

\* a VEHICLE_ASSIGNED naming vehicle, carrier and driver has been processed, and the
\* driver and the vehicle it names are AVAILABLE in the graph
FleetSynchronized ==
    \E i \in DOMAIN hist :
        /\ hist[i].event_type = "VEHICLE_ASSIGNED"
        /\ Truthy(get(hist[i].data, "vehicle_id"))
        /\ Truthy(get(hist[i].data, "carrier_id"))
        /\ Truthy(get(hist[i].data, "driver_id"))
        /\ MatchNodes(graph, "Driver", str(get(hist[i].data, "driver_id"))) # {}
        /\ MatchNodes(graph, "Vehicle", str(get(hist[i].data, "vehicle_id"))) # {}
        /\ TheNode(graph, "Driver", str(get(hist[i].data, "driver_id"))).props.status = "AVAILABLE"
        /\ TheNode(graph, "Vehicle", str(get(hist[i].data, "vehicle_id"))).props.status = "AVAILABLE"

\* C36: the synchronizer can populate the graph so that the finder's query has a row:
\* once it has processed a VEHICLE_ASSIGNED naming vehicle, carrier and driver and the
\* status events that make both AVAILABLE, the graph holds a
\* Driver-DRIVES-Vehicle-OWNED_BY-Carrier path with the status, location and capacity
\* properties the query reads.
C36_SynchronizerFeedsFinder == FleetSynchronized => FinderRows(graph) # {}

\* C36, the opposite: no sequence of events leaves a row for the finder's query
C36_NoFinderRowEver == FinderRows(graph) = {}

\* ------------------------------------------------------------------ claims: load lookup on the synchronized graph

\* MATCH (l:Load {load_id: $load_id}) of the load query (lines 66-67)
LoadRows(g, load_id) ==
    { n \in g.nodes : n.label = "Load" /\ Property(n, "load_id") = load_id }

\* the properties float() is applied to (lines 84-87)
Coordinates == {"pickup_lat", "pickup_lng", "delivery_lat", "delivery_lng"}

\* a LOAD_CREATED for the load has been processed
LoadCreatedProcessed(l) ==
    \E i \in DOMAIN hist :
        /\ hist[i].event_type = "LOAD_CREATED"
        /\ Or(get(hist[i].data, "id"), get(hist[i].data, "load_id")) = l

\* C37: once the synchronizer has processed LOAD_CREATED for a load, the optimizer's
\* lookup of that load does not fail and returns the Load node with its pickup and
\* delivery coordinates.
C37_CreatedLoadIsFound ==
    \A l \in LoadIds :
        LoadCreatedProcessed(l) =>
            /\ \A r \in Requests : r.load_id = <<l>> => load_lookup(r).raised = None
            /\ \E n \in LoadRows(graph, l) : \A k \in Coordinates : Property(n, k) # None

\* C37 for the query alone, had the call of execute_query been accepted
C37_QueryMatchesCreatedLoad ==
    \A l \in LoadIds : LoadCreatedProcessed(l) => LoadRows(graph, l) # {}

\* C37, the opposite: the query has no row in any reachable graph
C37_QueryNeverMatches == \A l \in LoadIds : LoadRows(graph, l) = {}

\* ------------------------------------------------------------------ claims: failed optimize_route

\* C38: a call of optimize_route that answers success = false has persisted no Route
\* row: a failure while the producer is obtained or ROUTE_OPTIMIZED is published does
\* not leave a row without its event.
C38_FailureLeavesNoRow ==
    [][ (calls' = Append(calls, "optimize_route") /\ ~answer'.success) => routes' = routes ]_vars

\* C38 for the failures before the row is inserted
C38_EarlyFailureLeavesNoRow ==
    [][ (/\ calls' = Append(calls, "optimize_route")
         /\ ~answer'.success
         /\ answer'.did[Len(answer'.did)] # "producer") => routes' = routes ]_vars

\* ------------------------------------------------------------------ claims: topics

\* topic_mapping.get(event_type, "tms.events.default") on the entries of the dictionary
\* whose keys EventType defines
topic_mapping_get(event_type) ==
    CASE event_type \in {"LOAD_CREATED", "LOAD_ASSIGNED", "LOAD_PICKED_UP", "LOAD_IN_TRANSIT",
                         "LOAD_DELIVERED", "LOAD_CANCELLED"} -> "tms.loads"
      [] event_type = "VEHICLE_LOCATION_UPDATED" -> "tms.vehicles.tracking"
      [] event_type = "VEHICLE_STATUS_CHANGED" -> "tms.vehicles"
      [] event_type = "VEHICLE_MAINTENANCE_DUE" -> "tms.vehicles.maintenance"
      [] event_type = "DRIVER_STATUS_CHANGED" -> "tms.drivers"
      [] event_type = "DRIVER_LOCATION_UPDATED" -> "tms.drivers.tracking"
      [] event_type = "DRIVER_HOS_VIOLATION" -> "tms.drivers.compliance"
      [] event_type \in {"ROUTE_OPTIMIZED", "ROUTE_COMPLETED"} -> "tms.routes"
      [] event_type = "ROUTE_DEVIATION" -> "tms.routes.alerts"
      [] event_type = "SYSTEM_ALERT" -> "tms.system.alerts"
      [] event_type = "AI_PREDICTION" -> "tms.ai.predictions"
      [] OTHER -> "tms.events.default"

\* TMSEventConsumer._get_default_topics
_get_default_topics ==
    { "tms.loads", "tms.vehicles", "tms.vehicles.tracking", "tms.drivers",
      "tms.drivers.tracking", "tms.routes", "tms.routes.alerts", "tms.carriers",
      "tms.system.alerts", "tms.ai.predictions" }

\* C39: an envelope of a type the synchronizer has a mutation for is one the producer
\* publishes: get_topic_name gives its type a topic, and the topic is in the
\* consumer's default subscription.
C39_SyncedTypesArePublished ==
    (hist # <<>> /\ Last.event_type \in SyncedTypes) =>
        /\ get_topic_name(Last.event_type).raised = None
        /\ topic_mapping_get(Last.event_type) \in _get_default_topics

\* C39 for the dictionary alone, had it been built
C39_MappedTopicIsSubscribed ==
    (hist # <<>> /\ Last.event_type \in SyncedTypes) =>
        topic_mapping_get(Last.event_type) \in _get_default_topics

\* C39 for the dictionary alone and the types other than VEHICLE_ASSIGNED and DRIVER_ASSIGNED
C39_MappedExceptAssigned ==
    (hist # <<>> /\ Last.event_type \in SyncedTypes \ {"VEHICLE_ASSIGNED", "DRIVER_ASSIGNED"}) =>
        topic_mapping_get(Last.event_type) \in _get_default_topics

\* ------------------------------------------------------------------ claims: constraints_applied
\* The finder and the scoring applied to fleets whose drivers have completed loads rated
\* low or high and whose carriers have a low, a high or no on-time percentage.

\* OptimizationConstraints defaults, reported under constraints_applied
min_driver_rating == 3
min_carrier_performance == 70

RatedPaths ==
    { Path("AVAILABLE", "AVAILABLE", TRUE, d, 50000, 2500, otp, rs, <<110>>, <<>>) :
        d \in {15, 50, 60}, otp \in {Null, <<60>>, <<75>>}, rs \in {<<>>, <<2>>, <<5>>} }

RatedFleets ==
    { WithIds(<<p>>) : p \in RatedPaths } \cup { WithIds(<<p, q>>) : p, q \in RatedPaths }

InitSelect ==
    /\ InitGraph
    /\ InitDispatch
    /\ InitRoutes
    /\ gmaps = None
    /\ fleet \in RatedFleets
    /\ request \in Requests
    /\ candidates = <<>>
    /\ scored = <<>>
    /\ response = NoResponse
    /\ stage = "requested"

NextSelect == FindCandidates \/ ScoreCandidates

SpecSelect == InitSelect /\ [][NextSelect]_vars

\* best_candidate = scored_candidates[0] (line 117): the finder's row it was built from
Selected == candidates[Origin(scored[1])]

C40_SelectedWithinDistance ==
    (stage = "scored" /\ scored # <<>>) =>
        Selected.distance_miles <= request.max_driver_distance_miles

====
